---- MODULE Spec2Model ----
(***************************************************************************)
(* A state-machine model of the PyPSA network object (components.py) and   *)
(* of the topology, bus-control and linear-OPF routines that act on it     *)
(* (pf.py, opf.py).                                                        *)
(*                                                                         *)
(* The whole Python object `network` is one record-valued variable; every  *)
(* routine of the source is an operator from a network record to a network *)
(* record, so that a routine which calls another one is the composition of *)
(* the two operators.  Component tables (pandas DataFrames) are sequences   *)
(* of records in index order.  Buses and generators are named by their     *)
(* position in their table (1, 2, ...); branches carry their name.  The    *)
(* empty string of a name-valued attribute is NoName.                      *)
(***************************************************************************)
EXTENDS Integers, Sequences, FiniteSets, TLC

\* ---- bounds of the model -------------------------------------------------
MaxBuses == 3
MaxBranches == 2

\* network:    the Network object
\* last_call:  the routine called last, the sub-network it was called on and,
\*             for network_lopf, the snapshots passed and how the call ended
\* before:     the network as it was when the last call of find_slack_bus,
\*             find_bus_controls, a power flow or network_lopf on a list of
\*             snapshots began (the freshly constructed network after any
\*             other call)
\* names_used: how many branch names the user has handed out
VARIABLES network, last_call, before, names_used

vars == <<network, last_call, before, names_used>>

\* ---- generic helpers -----------------------------------------------------
NoName == 0

Range(s) == {s[i] : i \in 1..Len(s)}

InSeq(x, s) == \E i \in 1..Len(s) : s[i] = x

RECURSIVE SelectSeqBy(_, _)
\* the sub-sequence of s whose elements are in the set keep (order kept)
SelectSeqBy(s, keep) ==
    IF s = <<>> THEN <<>>
    ELSE IF Head(s) \in keep THEN <<Head(s)>> \o SelectSeqBy(Tail(s), keep)
    ELSE SelectSeqBy(Tail(s), keep)

\* str(i) for the small naturals used as sub-network names
str(i) == <<"0", "1", "2", "3", "4", "5", "6", "7">>[i + 1]

\* ---- component classes (components.py) -----------------------------------
PassiveClasses == {"Line", "Transformer"}
ControllableClasses == {"Converter", "TransportLink"}
BranchClasses == PassiveClasses \cup ControllableClasses

list_name(cls) ==
    CASE cls = "Line" -> "lines"
      [] cls = "Transformer" -> "transformers"
      [] cls = "Converter" -> "converters"
      [] cls = "TransportLink" -> "transport_links"
      [] cls = "Bus" -> "buses"
      [] cls = "Generator" -> "generators"
      [] cls = "SubNetwork" -> "sub_networks"

\* Network.snapshots after construction: [self.now]
Snapshots == <<"now">>

\* a Series attribute: one value for every snapshot, the default at first
Series(default) == [t \in Range(Snapshots) |-> default]

\* an attribute or a table column that does not exist (yet), a float that is
\* nan, and one that has the value v
Missing == <<>>

Value(v) == <<v>>

\* the values a current_type is restricted to
CurrentTypes == {"AC", "DC"}

\* Bus(): the descriptor defaults of a new bus row
Bus ==
    [control |-> "PQ", sub_network |-> "", generator |-> NoName, v_nom |-> 1,
     current_type |-> "AC",
     p |-> Series(0), v_mag |-> Series(1), v_ang |-> Series(0), v_mag_set |-> Series(1),
     marginal_price |-> Series(0)]

\* Branch(): a new branch row of class cls with the descriptor defaults;
\* the user gives the end buses and, for a line or a transformer, a series
\* reactance x of 1 (with v_nom = 1 and s_nom = 1 every per-unit value is an
\* integer); v_nom is the column calculate_dependent_values adds; p_min,
\* p_max and p_set are attributes of converters and transport links; a
\* s_nom_max of nan is Missing
Branch(cls, name, bus0, bus1) ==
    [cls |-> cls, name |-> name, bus0 |-> bus0, bus1 |-> bus1, sub_network |-> "",
     s_nom |-> 1, s_nom_extendable |-> FALSE, s_nom_min |-> 0, s_nom_max |-> Missing,
     capital_cost |-> 0, p_min |-> 0, p_max |-> 0, p_set |-> Series(0),
     x |-> IF cls \in {"Line", "Transformer"} THEN 1 ELSE 0, r |-> 0, g |-> 0, b |-> 0,
     x_pu |-> 0, r_pu |-> 0, g_pu |-> 0, b_pu |-> 0, v_nom |-> Missing,
     p0 |-> Series(0), p1 |-> Series(0)]

\* SubNetwork(): a new sub-network row; slack_bus defaults to "", and
\* slack_generator is no attribute until find_slack_bus sets it
\* (nor are pvs, pqs, pvpqs, buses_o until find_bus_controls sets them, nor
\* the matrices Y, B, H, PTDF until calculate_Y, calculate_B_H and
\* calculate_PTDF do)
SubNetwork(name, graph) ==
    [name |-> name, graph |-> graph, current_type |-> "AC",
     slack_bus |-> NoName, slack_generator |-> NoName,
     pvs |-> <<>>, pqs |-> <<>>, pvpqs |-> <<>>, buses_o |-> <<>>,
     Y |-> Missing, B |-> Missing, H |-> Missing, PTDF |-> Missing]

\* Generator(): a new generator row: the descriptor defaults, and bus and
\* control as the user gave them; a p_nom_max of nan is Missing
Generator(bus, control) ==
    [bus |-> bus, control |-> control, dispatch |-> "flexible", sign |-> 1,
     source |-> "", p_nom |-> 0, p_nom_extendable |-> FALSE,
     p_nom_max |-> Missing, p_nom_min |-> 0, capital_cost |-> 0, marginal_cost |-> 0,
     p_max_pu |-> Series(0), p_min_pu |-> Series(0),
     p_max_pu_fixed |-> 1, p_min_pu_fixed |-> 0,
     p_set |-> Series(0), efficiency |-> 1, p |-> Series(0)]

\* Load(): a new load row at bus with the set point p_set
Load(bus, p_set) == [bus |-> bus, sign |-> -1, p_set |-> Series(p_set), p |-> Series(0)]

\* StorageUnit(Generator): a new storage-unit row at bus: the attributes of a
\* generator and its own; state_of_charge is nan
StorageUnit(bus) ==
    [bus |-> bus, sign |-> 1, p_nom |-> 0, p_nom_extendable |-> FALSE,
     p_nom_max |-> Missing, p_nom_min |-> 0, capital_cost |-> 0, marginal_cost |-> 0,
     p_max_pu_fixed |-> 1, p_min_pu_fixed |-> 0,
     state_of_charge_initial |-> 0, max_hours |-> 1, inflow |-> Series(0),
     efficiency_store |-> 1, efficiency_dispatch |-> 1, standing_loss |-> 0,
     p |-> Series(0), state_of_charge |-> Series(Missing)]

\* ShuntImpedance(): a new row of the table of shunt impedances; v_nom is the
\* column calculate_dependent_values adds
ShuntImpedance(bus) ==
    [bus |-> bus, sign |-> -1, g |-> 0, b |-> 0, g_pu |-> 0, b_pu |-> 0, v_nom |-> Missing]

\* Source(): a new row of the table of energy sources
Source(name, co2_emissions) == [name |-> name, co2_emissions |-> co2_emissions]

\* OrderedGraph(): the empty multigraph, nodes and edges in insertion order
OrderedGraph == [nodes |-> <<>>, edges |-> <<>>]

\* Network.__init__: the network after construction
Network ==
    [snapshots |-> Snapshots, snapshot_weightings |-> Series(1),
     buses |-> <<>>, sources |-> <<>>,
     generators |-> <<>>, loads |-> <<>>, storage_units |-> <<>>,
     lines |-> <<>>, transformers |-> <<>>, converters |-> <<>>, transport_links |-> <<>>,
     shunt_impedances |-> <<>>,
     sub_networks |-> <<>>,
     graph |-> OrderedGraph,
     topology_determined |-> FALSE,
     dependent_values_calculated |-> FALSE,
     co2_limit |-> Missing,
     dc_opf_formulation |-> "ptdf",
     \* attributes the class does not define: they exist once the user or a
     \* routine has set them
     lopf_formulation |-> Missing, ptdf_tolerance |-> Missing,
     model |-> Missing, results |-> Missing, objective |-> Missing]

\* Network.branches, Network.passive_branches, Network.controllable_branches
branches(n) == n.lines \o n.transformers \o n.converters \o n.transport_links

passive_branches(n) == n.lines \o n.transformers

controllable_branches(n) == n.converters \o n.transport_links

\* ---- Network.set_snapshots -------------------------------------------------
\* series.reindex(snapshots, fill_value=default)
reindex(series, snapshots, default) ==
    [t \in Range(snapshots) |-> IF t \in DOMAIN series THEN series[t] ELSE default]

\* the series p0, p1 and p_set of the rows of a table of branches reindexed
reindex_branches(rows, snapshots) ==
    [l \in 1..Len(rows) |-> [rows[l] EXCEPT
        !.p0 = reindex(@, snapshots, 0), !.p1 = reindex(@, snapshots, 0),
        !.p_set = reindex(@, snapshots, 0)]]

\* Network.set_snapshots: the snapshot weightings are filled with 1 and every
\* series of every component with the default of its descriptor
set_snapshots(n, snapshots) ==
    [n EXCEPT
        !.snapshots = snapshots,
        !.snapshot_weightings = reindex(@, snapshots, 1),
        !.buses = [b \in 1..Len(@) |-> [@[b] EXCEPT
            !.p = reindex(@, snapshots, 0), !.v_mag = reindex(@, snapshots, 1),
            !.v_ang = reindex(@, snapshots, 0), !.v_mag_set = reindex(@, snapshots, 1),
            !.marginal_price = reindex(@, snapshots, 0)]],
        !.generators = [g \in 1..Len(@) |-> [@[g] EXCEPT
            !.p_max_pu = reindex(@, snapshots, 0), !.p_min_pu = reindex(@, snapshots, 0),
            !.p_set = reindex(@, snapshots, 0), !.p = reindex(@, snapshots, 0)]],
        !.loads = [l \in 1..Len(@) |-> [@[l] EXCEPT
            !.p_set = reindex(@, snapshots, 0), !.p = reindex(@, snapshots, 0)]],
        !.storage_units = [u \in 1..Len(@) |-> [@[u] EXCEPT
            !.inflow = reindex(@, snapshots, 0), !.p = reindex(@, snapshots, 0),
            !.state_of_charge = reindex(@, snapshots, Missing)]],
        !.lines = reindex_branches(@, snapshots),
        !.transformers = reindex_branches(@, snapshots),
        !.converters = reindex_branches(@, snapshots),
        !.transport_links = reindex_branches(@, snapshots)]

\* ---- Network.add / Network.remove ----------------------------------------
\* Network.add for a bus: appends a row of defaults; the flag
\* topology_determined is not touched
add_bus(n) == [n EXCEPT !.buses = Append(@, Bus)]

\* Network.add for a bus with current_type given as a keyword argument
add_bus_of_type(n, current_type) ==
    [n EXCEPT !.buses = Append(@, [Bus EXCEPT !.current_type = current_type])]

\* Network.add for a bus with control given as a keyword argument
add_bus_with(n, control) == [n EXCEPT !.buses = Append(@, [Bus EXCEPT !.control = control])]

\* Network.add for a generator with bus and control as keyword arguments
add_generator(n, bus, control) ==
    [n EXCEPT !.generators = Append(@, Generator(bus, control))]

\* Network.add for a branch class: refuses a name already in the class's
\* table (the network is returned as it was), else appends the row
add_branch(n, cls, name, bus0, bus1) ==
    IF \E b \in Range(n[list_name(cls)]) : b.name = name
    THEN n
    ELSE [n EXCEPT ![list_name(cls)] = Append(@, Branch(cls, name, bus0, bus1))]

\* Network.remove for a branch: drops the row and marks the topology stale
remove(n, cls, name) ==
    [n EXCEPT ![list_name(cls)] = SelectSeq(@, LAMBDA b : b.name # name),
              !.topology_determined = FALSE]

\* ---- Network.build_graph -------------------------------------------------
\* the key of an edge is the branch object: its class, name and end buses
edge(b) == [cls |-> b.cls, name |-> b.name, bus0 |-> b.bus0, bus1 |-> b.bus1]

RECURSIVE add_edges_from(_, _)
\* networkx add_edges_from: an edge adds its end buses as nodes when they are
\* new; nothing else adds a node
add_edges_from(graph, bs) ==
    IF bs = <<>> THEN graph
    ELSE LET b == Head(bs)
             n1 == IF InSeq(b.bus0, graph.nodes) THEN graph.nodes
                   ELSE Append(graph.nodes, b.bus0)
             n2 == IF InSeq(b.bus1, n1) THEN n1 ELSE Append(n1, b.bus1)
         IN add_edges_from([nodes |-> n2, edges |-> Append(graph.edges, edge(b))],
                           Tail(bs))

build_graph(n) == [n EXCEPT !.graph = add_edges_from(OrderedGraph, branches(n))]

\* ---- Network.determine_network_topology ----------------------------------
\* networkx remove_edges_from: edges that are not in the graph are ignored
remove_edges_from(graph, bs) ==
    [graph EXCEPT !.edges = SelectSeq(@, LAMBDA e : e \notin {edge(b) : b \in Range(bs)})]

RECURSIVE plain_bfs(_, _)
\* the set of nodes reachable from the set seen along the edges of graph
plain_bfs(graph, seen) ==
    LET next == seen \cup {e.bus1 : e \in {x \in Range(graph.edges) : x.bus0 \in seen}}
                     \cup {e.bus0 : e \in {x \in Range(graph.edges) : x.bus1 \in seen}}
    IN IF next = seen THEN seen ELSE plain_bfs(graph, next)

RECURSIVE connected_components(_, _, _)
\* networkx connected_components: for each node in graph order that is not
\* yet in a component, the component of that node
connected_components(graph, todo, seen) ==
    IF todo = <<>> THEN <<>>
    ELSE IF Head(todo) \in seen THEN connected_components(graph, Tail(todo), seen)
    ELSE LET c == plain_bfs(graph, {Head(todo)})
         IN <<c>> \o connected_components(graph, Tail(todo), seen \cup c)

\* graph.subgraph(c): the nodes of c and the edges between them
subgraph(graph, c) ==
    [nodes |-> SelectSeqBy(graph.nodes, c),
     edges |-> SelectSeq(graph.edges, LAMBDA e : e.bus0 \in c /\ e.bus1 \in c)]

connected_component_subgraphs(graph) ==
    LET cs == connected_components(graph, graph.nodes, {})
    IN [i \in 1..Len(cs) |-> subgraph(graph, cs[i])]

\* the label written by the loop body of determine_network_topology for one
\* sub-graph: its buses, and those of its edges that are rows of a table (an
\* edge whose branch was removed from the tables writes to no row); the new
\* sub-network takes the current_type of the first node of the sub-graph
label_rows(rows, sub_graph, name) ==
    [i \in 1..Len(rows) |->
        IF edge(rows[i]) \in Range(sub_graph.edges)
        THEN [rows[i] EXCEPT !.sub_network = name] ELSE rows[i]]

label_sub_graph(n, sub_graph, name) ==
    [n EXCEPT !.buses = [b \in 1..Len(@) |->
                            IF InSeq(b, sub_graph.nodes)
                            THEN [@[b] EXCEPT !.sub_network = name] ELSE @[b]],
              !.lines = label_rows(@, sub_graph, name),
              !.transformers = label_rows(@, sub_graph, name),
              !.sub_networks = Append(@, [SubNetwork(name, sub_graph) EXCEPT
                    !.current_type = n.buses[sub_graph.nodes[1]].current_type])]

RECURSIVE add_sub_networks(_, _, _)
add_sub_networks(n, sub_graphs, i) ==
    IF i > Len(sub_graphs) THEN n
    ELSE add_sub_networks(label_sub_graph(n, sub_graphs[i], str(i - 1)), sub_graphs, i + 1)

determine_network_topology(n) ==
    LET graph == remove_edges_from(n.graph, n.converters \o n.transport_links)
        sub_graphs == connected_component_subgraphs(graph)
        removed == [n EXCEPT !.sub_networks = <<>>, !.topology_determined = FALSE]
    IN [add_sub_networks(removed, sub_graphs, 1) EXCEPT !.topology_determined = TRUE]

\* SubNetwork.buses: the buses whose sub_network label is the name
sn_buses(n, name) == {b \in 1..Len(n.buses) : n.buses[b].sub_network = name}

\* SubNetwork.generators: the generators, in index order, whose bus is one
\* of the sub-network's buses
sn_generators(n, name) ==
    SelectSeq([g \in 1..Len(n.generators) |-> g],
              LAMBDA g : n.generators[g].bus \in sn_buses(n, name))

\* the row of the sub-network called name
sn_row(n, name) == CHOOSE k \in 1..Len(n.sub_networks) : n.sub_networks[k].name = name

\* index[0] of a table whose index is the set of positions rows
first_index(rows) == CHOOSE b \in rows : \A c \in rows : b <= c

\* ---- find_slack_bus (pf.py) ----------------------------------------------
\* (a variant that takes the last generator labelled Slack)
choose_last_slack_generator(gens, slacks) ==
    IF Len(slacks) = 0 THEN gens[1] ELSE slacks[Len(slacks)]

\* the generator find_slack_bus takes as slack: the first generator when
\* none is labelled Slack, else the first one labelled Slack
choose_slack_generator(gens, slacks) ==
    IF Len(slacks) = 0 THEN gens[1] ELSE slacks[1]

\* (a variant that promotes but never demotes)
relabel_slacks_without_demotion(generators, gens, slacks) ==
    IF Len(slacks) = 0 THEN [generators EXCEPT ![gens[1]].control = "Slack"]
    ELSE generators

\* the relabelling of find_slack_bus: promote the first generator when
\* there is no slack, demote every slack but the first to PV when there are
\* several
relabel_slacks(generators, gens, slacks) ==
    IF Len(slacks) = 0 THEN [generators EXCEPT ![gens[1]].control = "Slack"]
    ELSE IF Len(slacks) = 1 THEN generators
    ELSE [g \in 1..Len(generators) |->
            IF InSeq(g, Tail(slacks)) THEN [generators[g] EXCEPT !.control = "PV"]
            ELSE generators[g]]

find_slack_bus(n, name) ==
    LET gens == sn_generators(n, name)
        k == sn_row(n, name)
    IN IF Len(gens) = 0
       THEN [n EXCEPT !.sub_networks[k].slack_generator = NoName,
                      !.sub_networks[k].slack_bus = first_index(sn_buses(n, name))]
       ELSE LET slacks == SelectSeq(gens, LAMBDA g : n.generators[g].control = "Slack")
                slack_generator == choose_slack_generator(gens, slacks)
            IN [n EXCEPT !.generators = relabel_slacks(@, gens, slacks),
                         !.sub_networks[k].slack_generator = slack_generator,
                         !.sub_networks[k].slack_bus = n.generators[slack_generator].bus]

\* ---- find_bus_controls (pf.py) -------------------------------------------
\* pandas drop_duplicates("bus"): of the generators gs, the first at each bus
drop_duplicates(generators, gs) ==
    SelectSeq(gs, LAMBDA g : \A h \in Range(gs) :
                                generators[h].bus = generators[g].bus => g <= h)

\* the PV generators of the sub-network, one for each bus
pv_generators(n, name) ==
    drop_duplicates(n.generators,
                    SelectSeq(sn_generators(n, name), LAMBDA g : n.generators[g].control = "PV"))

\* (a variant that does not first reset the sub-network's buses to PQ)
set_bus_controls_without_reset(n, name, sn) ==
    LET pvs == pv_generators(n, name)
        pv_at(b) == {g \in Range(pvs) : n.generators[g].bus = b}
        pv_written == [b \in 1..Len(n.buses) |->
                          IF pv_at(b) # {}
                          THEN [n.buses[b] EXCEPT !.control = "PV",
                                                  !.generator = CHOOSE g \in pv_at(b) : TRUE]
                          ELSE n.buses[b]]
    IN [pv_written EXCEPT ![sn.slack_bus].control = "Slack",
                          ![sn.slack_bus].generator = sn.slack_generator]

\* the bus table after the writes of find_bus_controls, in the order of the
\* source: PQ for every bus of the sub-network, then PV (and the generator)
\* for the bus of every PV generator, then Slack (and the slack generator)
\* for the slack bus
set_bus_controls(n, name, sn) ==
    LET pvs == pv_generators(n, name)
        pv_at(b) == {g \in Range(pvs) : n.generators[g].bus = b}
        pq_written == [b \in 1..Len(n.buses) |->
                          IF b \in sn_buses(n, name)
                          THEN [n.buses[b] EXCEPT !.control = "PQ"] ELSE n.buses[b]]
        pv_written == [b \in 1..Len(n.buses) |->
                          IF pv_at(b) # {}
                          THEN [pq_written[b] EXCEPT !.control = "PV",
                                                     !.generator = CHOOSE g \in pv_at(b) : TRUE]
                          ELSE pq_written[b]]
    IN [pv_written EXCEPT ![sn.slack_bus].control = "Slack",
                          ![sn.slack_bus].generator = sn.slack_generator]

\* the buses of the sub-network, in index order, whose control is control
buses_with_control(n, name, control) ==
    SelectSeq([b \in 1..Len(n.buses) |-> b],
              LAMBDA b : b \in sn_buses(n, name) /\ n.buses[b].control = control)

\* the writes of bus control and generator, n being the network after
\* find_slack_bus
write_bus_controls(n, name) ==
    [n EXCEPT !.buses = set_bus_controls(n, name, n.sub_networks[sn_row(n, name)])]

\* the lists pvs, pqs, pvpqs and buses_o of the sub-network, n being the
\* network after the writes of bus control
write_bus_lists(n, name, pvs, pqs) ==
    LET k == sn_row(n, name)
    IN [n EXCEPT !.sub_networks[k].pvs = pvs,
                 !.sub_networks[k].pqs = pqs,
                 !.sub_networks[k].pvpqs = pvs \o pqs,
                 !.sub_networks[k].buses_o = <<n.sub_networks[k].slack_bus>> \o pvs \o pqs]

\* (a variant that lists the buses in index order whatever their control)
find_bus_lists_in_index_order(n, name) ==
    write_bus_lists(n, name,
                    SelectSeq(buses_with_control(n, name, "PV") \o buses_with_control(n, name, "PQ"),
                              LAMBDA b : b < n.sub_networks[sn_row(n, name)].slack_bus),
                    SelectSeq(buses_with_control(n, name, "PV") \o buses_with_control(n, name, "PQ"),
                              LAMBDA b : b > n.sub_networks[sn_row(n, name)].slack_bus))

\* the second half of find_bus_controls, n being the network after the
\* writes of bus control
find_bus_lists(n, name) ==
    write_bus_lists(n, name, buses_with_control(n, name, "PV"),
                    buses_with_control(n, name, "PQ"))

find_bus_controls(n, name) ==
    find_bus_lists(write_bus_controls(find_slack_bus(n, name), name), name)

\* ---- calculate_dependent_values (pf.py) -----------------------------------
\* (a conversion that starts from the per-unit values of an earlier call)
per_unit_line_again(n, l) ==
    LET v_nom == n.buses[l.bus0].v_nom
    IN [l EXCEPT !.v_nom = Value(v_nom),
                 !.x_pu = (IF l.v_nom = Missing THEN l.x ELSE l.x_pu) \div (v_nom * v_nom),
                 !.r_pu = (IF l.v_nom = Missing THEN l.r ELSE l.r_pu) \div (v_nom * v_nom),
                 !.b_pu = l.b * v_nom * v_nom,
                 !.g_pu = l.g * v_nom * v_nom]

\* a line gets the v_nom of its bus0 as a column and its impedances per unit
\* of v_nom squared
per_unit_line(n, l) ==
    LET v_nom == n.buses[l.bus0].v_nom
    IN [l EXCEPT !.v_nom = Value(v_nom),
                 !.x_pu = l.x \div (v_nom * v_nom),
                 !.r_pu = l.r \div (v_nom * v_nom),
                 !.b_pu = l.b * v_nom * v_nom,
                 !.g_pu = l.g * v_nom * v_nom]

\* a transformer converts from its own base s_nom
per_unit_transformer(t) ==
    [t EXCEPT !.x_pu = t.x \div t.s_nom,
              !.r_pu = t.r \div t.s_nom,
              !.b_pu = t.b * t.s_nom,
              !.g_pu = t.g * t.s_nom]

\* a shunt impedance gets the v_nom of its bus as a column and its
\* admittances per unit
per_unit_shunt(n, sh) ==
    LET v_nom == n.buses[sh.bus].v_nom
    IN [sh EXCEPT !.v_nom = Value(v_nom),
                  !.b_pu = sh.b * v_nom * v_nom,
                  !.g_pu = sh.g * v_nom * v_nom]

calculate_dependent_values(n) ==
    [n EXCEPT !.lines = [i \in 1..Len(@) |-> per_unit_line(n, @[i])],
              !.transformers = [i \in 1..Len(@) |-> per_unit_transformer(@[i])],
              !.shunt_impedances = [i \in 1..Len(@) |-> per_unit_shunt(n, @[i])],
              !.dependent_values_calculated = TRUE]

\* ---- calculate_B_H, calculate_PTDF (pf.py) --------------------------------
\* SubNetwork.branches: the branches labelled with the sub-network's name
sn_branches(n, name) == SelectSeq(branches(n), LAMBDA b : b.sub_network = name)

RECURSIVE sum(_, _)
\* the sum of f[k] for k in 1..m
sum(f, m) == IF m = 0 THEN 0 ELSE f[m] + sum(f, m - 1)

\* the product of the matrices a (rows x inner) and b (inner x cols)
matmul(a, b, rows, inner, cols) ==
    [i \in 1..rows |-> [j \in 1..cols |-> sum([k \in 1..inner |-> a[i][k] * b[k][j]], inner)]]

\* the position of bus in buses_o (column i of buses_o, counted from 1)
position(buses_o, bus) == CHOOSE i \in 1..Len(buses_o) : buses_o[i] = bus

\* the per-unit attribute a sub-network of the current type works with
attribute(current_type) == IF current_type = "DC" THEN "r_pu" ELSE "x_pu"

\* the susceptance of a branch: one over the x_pu of a branch of an AC
\* sub-network and over the r_pu of a branch of a DC one
susceptance(n, branch) ==
    1 \div branch[attribute(n.sub_networks[sn_row(n, branch.sub_network)].current_type)]

calculate_B_H(n, name) ==
    LET k == sn_row(n, name)
        bs == sn_branches(n, name)
        buses_o == n.sub_networks[k].buses_o
        num_branches == Len(bs)
        num_buses == Len(buses_o)
        from_bus == [l \in 1..num_branches |-> position(buses_o, bs[l].bus0)]
        to_bus == [l \in 1..num_branches |-> position(buses_o, bs[l].bus1)]
        H == [l \in 1..num_branches |-> [j \in 1..num_buses |->
                (IF j = from_bus[l] THEN susceptance(n, bs[l]) ELSE 0)
                - (IF j = to_bus[l] THEN susceptance(n, bs[l]) ELSE 0)]]
        incidence_T == [i \in 1..num_buses |-> [l \in 1..num_branches |->
                (IF i = from_bus[l] THEN 1 ELSE 0) - (IF i = to_bus[l] THEN 1 ELSE 0)]]
    IN [n EXCEPT !.sub_networks[k].H = Value(H),
                 !.sub_networks[k].B = Value(matmul(incidence_T, H, num_buses, num_branches, num_buses))]

\* spsolve(B[1:, 1:], rhs) for a sub-network with one bus besides the slack
\* bus (the sub-networks of this model have at most two buses)
spsolve(B, rhs) == [i \in 1..Len(rhs) |-> rhs[i] \div B[2][2]]

calculate_PTDF(n, name) ==
    LET k == sn_row(n, name)
        sn == n.sub_networks[k]
        n_pvpq == Len(sn.pvpqs)
        solved == spsolve(sn.B[1], [i \in 1..n_pvpq |-> 1])
        \* zeroes added back for the slack bus
        B_inverse == [i \in 1..(n_pvpq + 1) |-> [j \in 1..(n_pvpq + 1) |->
                        IF i = 1 \/ j = 1 THEN 0 ELSE IF i = j THEN solved[i - 1] ELSE 0]]
    IN [n EXCEPT !.sub_networks[k].PTDF =
            Value(matmul(sn.H[1], B_inverse, Len(sn.H[1]), n_pvpq + 1, n_pvpq + 1))]

\* ---- building the linear programme (opf.py) --------------------------------
\* A routine that can raise returns the network as it stands together with the
\* name of the exception raised ("" if none).
Ok(n) == [network |-> n, raised |-> ""]
Raise(n, exception) == [network |-> n, raised |-> exception]
\* r has raised
Raised(r) == r.raised # ""
\* r, and then F on its network unless it has raised
Then(r, F(_)) == IF Raised(r) THEN r ELSE F(r.network)

\* network.model is the set of the names of the components attached to it
\* and, once a solution was loaded, the values of its variables
ConcreteModel == Value([components |-> {}, values |-> Missing])
components(n) == IF n.model = Missing THEN {} ELSE n.model[1].components
\* network.model.<name> = ... for each of the names
declare(n, names) ==
    [n EXCEPT !.model = Value([components |-> components(n) \cup names, values |-> Missing])]

SupportedDispatch == {"flexible", "variable"}

\* gen_p_bounds raises for a generator of fixed capacity with another dispatch
gen_p_bounds_raises(gen) ==
    ~gen.p_nom_extendable /\ gen.dispatch \notin SupportedDispatch

\* (a rule that takes any other dispatch for a flexible one and never raises)
gen_p_lower_accepts_any_dispatch(gen) == FALSE

\* gen_p_lower raises for an extendable generator with another dispatch
gen_p_lower_raises(gen) == gen.dispatch \notin SupportedDispatch

extendable(rows) == SelectSeq(rows, LAMBDA row : row.p_nom_extendable)

define_generator_variables_constraints(n, snapshots) ==
    IF snapshots # <<>> /\ \E gen \in Range(n.generators) : gen_p_bounds_raises(gen)
    THEN Raise(n, "NotImplementedError")
    ELSE LET n1 == declare(n, {"generator_p", "generator_p_nom"})
         IN IF snapshots # <<>>
               /\ \E gen \in Range(extendable(n.generators)) : gen_p_lower_raises(gen)
            THEN Raise(n1, "NotImplementedError")
            ELSE Ok(declare(n1, {"generator_p_lower", "generator_p_upper"}))

define_storage_variables_constraints(n, snapshots) ==
    declare(n, {"storage_p_dispatch", "storage_p_store", "storage_p_nom",
                "storage_p_upper", "storage_p_lower", "state_of_charge",
                "state_of_charge_upper", "state_of_charge_constraint",
                "state_of_charge_constraint_fixed"})

define_branch_extension_variables(n, snapshots) == declare(n, {"branch_s_nom"})

define_controllable_branch_flows(n, snapshots) ==
    declare(n, {"controllable_branch_p", "controllable_branch_p_upper",
                "controllable_branch_p_lower"})

define_nodal_balances(n, snapshots) == declare(n, {"power_balance"})

\* the angles formulation
define_passive_branch_flows(n, snapshots) ==
    declare(n, {"voltage_angles", "slack_angle", "flow"})

\* PTDF[abs(PTDF) < tolerance] = 0
kill_small(PTDF, tolerance) ==
    [i \in 1..Len(PTDF) |-> [j \in 1..Len(PTDF[i]) |->
        IF (IF PTDF[i][j] < 0 THEN -PTDF[i][j] ELSE PTDF[i][j]) < tolerance
        THEN 0 ELSE PTDF[i][j]]]

\* the small values of the PTDF of a sub-network set to zero: reading
\* network.ptdf_tolerance fails if it was never set
kill_small_PTDF(n, name) ==
    IF n.ptdf_tolerance = Missing
    THEN Raise(n, "AttributeError")
    ELSE Ok([n EXCEPT !.sub_networks[sn_row(n, name)].PTDF =
                Value(kill_small(@[1], n.ptdf_tolerance[1]))])

\* the matrices of a sub-network, n being the network after find_bus_controls
sub_network_matrices(n, name) ==
    IF Len(sn_branches(n, name)) > 0
    THEN kill_small_PTDF(calculate_PTDF(calculate_B_H(n, name), name), name)
    ELSE Ok(n)

\* the body of the loop of define_passive_branch_flows_with_PTDF for one
\* sub-network
sub_network_PTDF(n, name) == sub_network_matrices(find_bus_controls(n, name), name)

RECURSIVE sub_networks_PTDF(_, _)
\* the loop over network.sub_networks.obj from row i on, r being the state
\* of the call so far
sub_networks_PTDF(r, i) ==
    IF Raised(r) \/ i > Len(r.network.sub_networks) THEN r
    ELSE sub_networks_PTDF(sub_network_PTDF(r.network, r.network.sub_networks[i].name),
                           i + 1)

\* the ptdf formulation
define_passive_branch_flows_with_PTDF(n, snapshots) ==
    Then(sub_networks_PTDF(Ok(n), 1), LAMBDA n1 : Ok(declare(n1, {"flow"})))

\* the rules read model.flow for every passive branch and snapshot
define_passive_branch_constraints(n, snapshots) ==
    IF Len(passive_branches(n)) > 0 /\ snapshots # <<>> /\ "flow" \notin components(n)
    THEN Raise(n, "AttributeError")
    ELSE Ok(declare(n, {"flow_upper", "flow_lower"}))

define_nodal_balance_constraints(n, snapshots) ==
    declare(n, {"power_balance_constraint"})

define_sub_network_balance_constraints(n, snapshots) ==
    declare(n, {"sub_network_balance_constraint"})

\* the rule reads network.sources.obj[gen.source] for every generator and
\* snapshot: a generator whose source is no row of the sources fails it
define_co2_constraint(n, snapshots) ==
    IF snapshots # <<>>
       /\ \E gen \in Range(n.generators) :
                \A source \in Range(n.sources) : source.name # gen.source
    THEN Raise(n, "KeyError")
    ELSE Ok(declare(n, {"co2_constraint"}))

define_linear_objective(n, snapshots) == declare(n, {"objective"})

\* ---- extract_optimisation_results (opf.py) ---------------------------------
\* (an extraction that writes nothing back)
write_nothing(series, snapshots, values) == series

\* the series with the entries of the snapshots replaced by those of values
write(series, snapshots, values) ==
    [t \in DOMAIN series |-> IF t \in Range(snapshots) THEN values[t] ELSE series[t]]

\* the key of a branch in the index of network.branches
key(branch) == <<branch.cls, branch.name>>

\* bus.generators, bus.loads, bus.storage_units
at_bus(rows, bus) == SelectSeq(rows, LAMBDA row : row.bus = bus)

\* sum(asset.sign*asset.p[snapshot]) over the rows
signed_p(rows, t) == sum([a \in 1..Len(rows) |-> rows[a].sign * rows[a].p[t]], Len(rows))

\* generator.p, su.p, su.state_of_charge and load.p for the snapshots
extract_asset_p(n, snapshots, solution) ==
    [n EXCEPT
        !.generators = [g \in 1..Len(@) |-> [@[g] EXCEPT
            !.p = write(@, snapshots, [t \in Range(snapshots) |-> solution.generator_p[g][t]])]],
        !.storage_units = [u \in 1..Len(@) |-> [@[u] EXCEPT
            !.p = write(@, snapshots, [t \in Range(snapshots) |->

                    solution.storage_p_dispatch[u][t] - solution.storage_p_store[u][t]]),
            !.state_of_charge = write(@, snapshots, [t \in Range(snapshots) |->

                    Value(solution.state_of_charge[u][t])])]],
        !.loads = [l \in 1..Len(@) |-> [@[l] EXCEPT
            !.p = write(@, snapshots, [t \in Range(snapshots) |-> n.loads[l].p_set[t]])]]]

\* bus.p, and with the angles formulation bus.v_ang and bus.marginal_price
extract_bus_p(n, snapshots, solution) ==
    [n EXCEPT !.buses = [bus \in 1..Len(@) |-> [@[bus] EXCEPT
        !.p = write(@, snapshots, [t \in Range(snapshots) |->

                signed_p(at_bus(n.generators, bus), t) + signed_p(at_bus(n.loads, bus), t)
                + signed_p(at_bus(n.storage_units, bus), t)]),
        !.v_ang = IF n.lopf_formulation = Value("angles")
                  THEN write(@, snapshots, [t \in Range(snapshots) |->
                                solution.voltage_angles[bus][t]])
                  ELSE @,
        !.marginal_price = IF n.lopf_formulation = Value("angles")
                           THEN write(@, snapshots, [t \in Range(snapshots) |->
                                solution.dual[bus][t]])
                           ELSE @]]]

\* cb.p0 and cb.p1 of the rows of one table of controllable branches
extract_cb_rows(rows, snapshots, solution) ==
    [c \in 1..Len(rows) |-> [rows[c] EXCEPT
        !.p0 = write(@, snapshots, [t \in Range(snapshots) |->
                    solution.controllable_branch_p[key(rows[c])][t]]),
        !.p1 = write(@, snapshots, [t \in Range(snapshots) |->
                    -solution.controllable_branch_p[key(rows[c])][t]])]]

\* the controllable flows, taken off the injections of their end buses
extract_controllable_branch_p(n, snapshots, solution) ==
    LET n1 == [n EXCEPT !.converters = extract_cb_rows(@, snapshots, solution),
                        !.transport_links = extract_cb_rows(@, snapshots, solution)]
        cbs == controllable_branches(n1)
    IN [n1 EXCEPT !.buses = [bus \in 1..Len(@) |-> [@[bus] EXCEPT
            !.p = write(@, snapshots, [t \in Range(snapshots) |-> @[t]
                    - sum([c \in 1..Len(cbs) |->
                            (IF cbs[c].bus0 = bus THEN cbs[c].p0[t] ELSE 0)
                            + (IF cbs[c].bus1 = bus THEN cbs[c].p1[t] ELSE 0)], Len(cbs))])]]]

\* with the ptdf formulation the angles of one sub-network are solved back
\* from the injections; a sub-network on which calculate_B_H never ran has no B
sub_network_v_ang(n, snapshots, name) ==
    LET sn == n.sub_networks[sn_row(n, name)]
        n1 == [n EXCEPT !.buses[sn.slack_bus].v_ang =
                            write(@, snapshots, [t \in Range(snapshots) |-> 0])]
    IN IF Len(sn.pvpqs) = 0 THEN Ok(n1)
       ELSE IF sn.B = Missing THEN Raise(n1, "AttributeError")
       ELSE Ok([n1 EXCEPT !.buses = [bus \in 1..Len(@) |->
                IF InSeq(bus, sn.pvpqs)
                THEN [@[bus] EXCEPT !.v_ang = write(@, snapshots, [t \in Range(snapshots) |->

                        spsolve(sn.B[1], [i \in 1..Len(sn.pvpqs) |->
                                            n1.buses[sn.pvpqs[i]].p[t]])[position(sn.pvpqs, bus)]])]
                ELSE @[bus]]])

RECURSIVE sub_networks_v_ang(_, _, _)
\* the loop over network.sub_networks.obj from row i on, r being the state
\* of the call so far
sub_networks_v_ang(r, snapshots, i) ==
    IF Raised(r) \/ i > Len(r.network.sub_networks) THEN r
    ELSE sub_networks_v_ang(
            sub_network_v_ang(r.network, snapshots, r.network.sub_networks[i].name),
            snapshots, i + 1)

\* bus.v_ang solved back where the formulation is ptdf
solve_back_v_ang(n, snapshots) ==
    IF n.lopf_formulation = Value("ptdf") /\ snapshots # <<>>
    THEN sub_networks_v_ang(Ok(n), snapshots, 1) ELSE Ok(n)

\* branch.p0 and branch.p1 of the rows of one table of passive branches
extract_flow_rows(n, rows, snapshots) ==
    [l \in 1..Len(rows) |-> [rows[l] EXCEPT
        !.p0 = write(@, snapshots, [t \in Range(snapshots) |-> susceptance(n, rows[l])
                    * (n.buses[rows[l].bus0].v_ang[t] - n.buses[rows[l].bus1].v_ang[t])]),
        !.p1 = write(@, snapshots, [t \in Range(snapshots) |-> -(susceptance(n, rows[l])
                    * (n.buses[rows[l].bus0].v_ang[t] - n.buses[rows[l].bus1].v_ang[t]))])]]

extract_passive_branch_p(n, snapshots) ==
    [n EXCEPT !.lines = extract_flow_rows(n, @, snapshots),
              !.transformers = extract_flow_rows(n, @, snapshots)]

\* branch.s_nom of the extendable rows of one table of branches
extract_s_nom_rows(rows, solution) ==
    [l \in 1..Len(rows) |->
        IF rows[l].s_nom_extendable
        THEN [rows[l] EXCEPT !.s_nom = solution.branch_s_nom[key(rows[l])]] ELSE rows[l]]

\* p_nom and s_nom of the extendable components
extract_capacities(n, solution) ==
    [n EXCEPT
        !.generators = [g \in 1..Len(@) |->
            IF @[g].p_nom_extendable
            THEN [@[g] EXCEPT !.p_nom = solution.generator_p_nom[g]] ELSE @[g]],
        !.storage_units = [u \in 1..Len(@) |->
            IF @[u].p_nom_extendable
            THEN [@[u] EXCEPT !.p_nom = solution.storage_p_nom[u]] ELSE @[u]],
        !.lines = extract_s_nom_rows(@, solution),
        !.transformers = extract_s_nom_rows(@, solution),
        !.converters = extract_s_nom_rows(@, solution),
        !.transport_links = extract_s_nom_rows(@, solution)]

\* network.objective
extract_objective(n) == [n EXCEPT !.objective = Value(n.results[1].lower_bound)]

extract_optimisation_results(n, snapshots, solution) ==
    Then(solve_back_v_ang(
            extract_controllable_branch_p(
                extract_bus_p(extract_asset_p(extract_objective(n), snapshots, solution),
                              snapshots, solution),
                snapshots, solution),
            snapshots),
         LAMBDA n1 : Ok(extract_capacities(extract_passive_branch_p(n1, snapshots),
                                            solution)))

\* ---- the variables and constraints of the linear programme (opf.py) ---------
\* A solution gives every variable of the model a value.  A bound is a pair
\* of a lower and an upper limit, each a value or none (None and nan are both
\* Missing here, which is what replace_nan_with_none makes of a nan).
within(x, bounds) ==
    /\ bounds[1] = Missing \/ bounds[1][1] <= x
    /\ bounds[2] = Missing \/ x <= bounds[2][1]

\* the per-unit limits of a generator at a snapshot: the fixed ones of a
\* flexible generator, those of the snapshot for a variable one
p_pu(gen, snapshot) ==
    IF gen.dispatch = "flexible" THEN <<gen.p_min_pu_fixed, gen.p_max_pu_fixed>>
    ELSE <<gen.p_min_pu[snapshot], gen.p_max_pu[snapshot]>>

gen_p_bounds(gen, snapshot) ==
    IF gen.p_nom_extendable THEN <<Missing, Missing>>
    ELSE <<Value(gen.p_nom * p_pu(gen, snapshot)[1]), Value(gen.p_nom * p_pu(gen, snapshot)[2])>>

\* gen_p_nom_bounds and su_p_nom_bounds
gen_p_nom_bounds(gen) == <<Value(gen.p_nom_min), gen.p_nom_max>>

\* model.generator_p and model.generator_p_nom: domains and bounds
generator_p(n, snapshots, s) ==
    /\ \A g \in 1..Len(n.generators), t \in Range(snapshots) :
            within(s.generator_p[g][t], gen_p_bounds(n.generators[g], t))
    /\ \A g \in DOMAIN s.generator_p_nom :
            s.generator_p_nom[g] >= 0
            /\ within(s.generator_p_nom[g], gen_p_nom_bounds(n.generators[g]))

\* model.generator_p_lower and model.generator_p_upper
generator_p_lower(n, snapshots, s) ==
    \A g \in DOMAIN s.generator_p_nom, t \in Range(snapshots) :
        s.generator_p[g][t] >= s.generator_p_nom[g] * p_pu(n.generators[g], t)[1]

\* (a model without the upper limit of the extendable generators)
generator_p_upper_unconstrained(n, snapshots, s) == TRUE

generator_p_upper(n, snapshots, s) ==
    \A g \in DOMAIN s.generator_p_nom, t \in Range(snapshots) :
        s.generator_p[g][t] <= s.generator_p_nom[g] * p_pu(n.generators[g], t)[2]

su_p_dispatch_bounds(su) ==
    IF su.p_nom_extendable THEN <<Value(0), Missing>>
    ELSE <<Value(0), Value(su.p_nom * su.p_max_pu_fixed)>>

su_p_store_bounds(su) ==
    IF su.p_nom_extendable THEN <<Value(0), Missing>>
    ELSE <<Value(0), Value(-su.p_nom * su.p_min_pu_fixed)>>

\* model.storage_p_dispatch, model.storage_p_store, model.storage_p_nom and
\* model.state_of_charge: domains and bounds
storage_p(n, snapshots, s) ==
    /\ \A u \in 1..Len(n.storage_units), t \in Range(snapshots) :
            /\ s.storage_p_dispatch[u][t] >= 0
            /\ within(s.storage_p_dispatch[u][t], su_p_dispatch_bounds(n.storage_units[u]))
            /\ s.storage_p_store[u][t] >= 0
            /\ within(s.storage_p_store[u][t], su_p_store_bounds(n.storage_units[u]))
            /\ s.state_of_charge[u][t] >= 0
    /\ \A u \in DOMAIN s.storage_p_nom :
            s.storage_p_nom[u] >= 0
            /\ within(s.storage_p_nom[u], gen_p_nom_bounds(n.storage_units[u]))

\* model.storage_p_upper and model.storage_p_lower
storage_p_upper(n, snapshots, s) ==
    \A u \in DOMAIN s.storage_p_nom, t \in Range(snapshots) :
        s.storage_p_dispatch[u][t] <= s.storage_p_nom[u] * n.storage_units[u].p_max_pu_fixed

storage_p_lower(n, snapshots, s) ==
    \A u \in DOMAIN s.storage_p_nom, t \in Range(snapshots) :
        s.storage_p_store[u][t] <= -s.storage_p_nom[u] * n.storage_units[u].p_min_pu_fixed

\* (a model without the upper limit of the state of charge)
soc_upper_unconstrained(n, snapshots, s) == TRUE

\* model.state_of_charge_upper
soc_upper(n, snapshots, s) ==
    \A u \in 1..Len(n.storage_units), t \in Range(snapshots) :
        s.state_of_charge[u][t]
            - n.storage_units[u].max_hours
                * (IF n.storage_units[u].p_nom_extendable
                   THEN s.storage_p_nom[u] ELSE n.storage_units[u].p_nom) <= 0

RECURSIVE power(_, _)
\* base**exponent for a natural exponent
power(base, exponent) == IF exponent = 0 THEN 1 ELSE base * power(base, exponent - 1)

\* (a rule that starts every snapshot from the initial state of charge)
previous_state_of_charge_initial(su, u, snapshots, i, s) == su.state_of_charge_initial

\* the state of charge before snapshot number i of the list: the initial one
\* before the first snapshot, else the variable of the snapshot before
previous_state_of_charge(su, u, snapshots, i, s) ==
    IF i = 1 THEN su.state_of_charge_initial ELSE s.state_of_charge[u][snapshots[i - 1]]

\* the state of charge the equation of a snapshot ends in: the variable where
\* the series of the unit is nan there, else the value the series has
state_of_charge(su, u, snapshot, s) ==
    IF su.state_of_charge[snapshot] = Missing
    THEN s.state_of_charge[u][snapshot] ELSE su.state_of_charge[snapshot][1]

\* the rule of model.state_of_charge_constraint for unit u and snapshot
\* number i = snapshots.index(snapshot) + 1 (both sides are multiplied by
\* efficiency_dispatch, so that the rule stays within the integers)
soc_rule(su, u, snapshots, i, elapsed_hours, s) ==
    su.efficiency_dispatch
        * (power(1 - su.standing_loss, elapsed_hours)
                * previous_state_of_charge(su, u, snapshots, i, s)
           + su.efficiency_store * s.storage_p_store[u][snapshots[i]] * elapsed_hours
           + su.inflow[snapshots[i]] * elapsed_hours
           - state_of_charge(su, u, snapshots[i], s))
    = s.storage_p_dispatch[u][snapshots[i]] * elapsed_hours

\* snapshots.index(snapshot) + 1: the first place of the snapshot in the list
index(snapshots, snapshot) ==
    CHOOSE i \in 1..Len(snapshots) :
        snapshots[i] = snapshot /\ \A j \in 1..(i - 1) : snapshots[j] # snapshot

\* model.state_of_charge_constraint
soc_constraint(n, snapshots, s) ==
    \A u \in 1..Len(n.storage_units), t \in Range(snapshots) :
        soc_rule(n.storage_units[u], u, snapshots, index(snapshots, t),
                 n.snapshot_weightings[t], s)

\* (a model that does not pin the variable of a fixed state of charge)
soc_constraint_unpinned(n, snapshots, s) == TRUE

\* model.state_of_charge_constraint_fixed
soc_constraint_fixed(n, snapshots, s) ==
    \A u \in 1..Len(n.storage_units), t \in Range(snapshots) :
        n.storage_units[u].state_of_charge[t] = Missing
        \/ s.state_of_charge[u][t] = n.storage_units[u].state_of_charge[t][1]

\* model.branch_s_nom: domain and bounds
branch_s_nom(n, s) ==
    \A b \in Range(branches(n)) :
        b.s_nom_extendable =>
            /\ s.branch_s_nom[key(b)] >= 0
            /\ within(s.branch_s_nom[key(b)], <<Value(b.s_nom_min), b.s_nom_max>>)

cb_p_bounds(cb) ==
    IF cb.s_nom_extendable THEN <<Missing, Missing>> ELSE <<Value(cb.p_min), Value(cb.p_max)>>

\* model.controllable_branch_p: bounds
controllable_branch_p(n, snapshots, s) ==
    \A cb \in Range(controllable_branches(n)), t \in Range(snapshots) :
        within(s.controllable_branch_p[key(cb)][t], cb_p_bounds(cb))

\* model.controllable_branch_p_upper and model.controllable_branch_p_lower
controllable_branch_p_upper(n, snapshots, s) ==
    \A cb \in Range(controllable_branches(n)), t \in Range(snapshots) :
        cb.s_nom_extendable => s.controllable_branch_p[key(cb)][t] <= s.branch_s_nom[key(cb)]

controllable_branch_p_lower(n, snapshots, s) ==
    \A cb \in Range(controllable_branches(n)), t \in Range(snapshots) :
        cb.s_nom_extendable => s.controllable_branch_p[key(cb)][t] >= -s.branch_s_nom[key(cb)]

\* sum(coeff*value(branch)) over the rows, the coefficient being -1 where
\* bus is the bus0 of the branch and 1 where it is its bus1
inflow_sum(rows, bus, values) ==
    sum([c \in 1..Len(rows) |-> (IF rows[c].bus0 = bus THEN -values[c] ELSE 0)
                                 + (IF rows[c].bus1 = bus THEN values[c] ELSE 0)], Len(rows))

\* sum(sign*value) over the rows that are at bus
signed_sum(rows, bus, values) ==
    sum([a \in 1..Len(rows) |-> IF rows[a].bus = bus THEN rows[a].sign * values[a] ELSE 0],
        Len(rows))

\* model.power_balance[bus, snapshot]
p_balance(n, bus, t, s) ==
    signed_sum(n.generators, bus, [g \in 1..Len(n.generators) |-> s.generator_p[g][t]])
    + signed_sum(n.storage_units, bus,
                 [u \in 1..Len(n.storage_units) |-> s.storage_p_dispatch[u][t]])
    - signed_sum(n.storage_units, bus,
                 [u \in 1..Len(n.storage_units) |-> s.storage_p_store[u][t]])
    + signed_sum(n.loads, bus, [l \in 1..Len(n.loads) |-> n.loads[l].p_set[t]])
    + inflow_sum(controllable_branches(n), bus,
                 [c \in 1..Len(controllable_branches(n)) |->
                    s.controllable_branch_p[key(controllable_branches(n)[c])][t]])

\* model.slack_angle
slack(n, snapshots, s) ==
    \A k \in 1..Len(n.sub_networks), t \in Range(snapshots) :
        s.voltage_angles[n.sub_networks[k].slack_bus][t] = 0

\* branch._flow[snapshot] of branch number i of the sub-network sn: the
\* products with the entries of the PTDF that are not zero
ptdf_flow(n, sn, i, t, s) ==
    sum([j \in 1..Len(sn.buses_o) |->
            IF sn.PTDF[1][i][j] # 0
            THEN sn.PTDF[1][i][j] * p_balance(n, sn.buses_o[j], t, s) ELSE 0],
        Len(sn.buses_o))

\* model.flow[branch, snapshot] as the formulation of the model defines it
flow(n, branch, t, s) ==
    IF "voltage_angles" \in components(n)
    THEN susceptance(n, branch)
            * (s.voltage_angles[branch.bus0][t] - s.voltage_angles[branch.bus1][t])
    ELSE ptdf_flow(n, n.sub_networks[sn_row(n, branch.sub_network)],
                   position([i \in 1..Len(sn_branches(n, branch.sub_network)) |->
                                key(sn_branches(n, branch.sub_network)[i])], key(branch)),
                   t, s)

\* model.flow_upper and model.flow_lower
flow_upper(n, snapshots, s) ==
    \A b \in Range(passive_branches(n)), t \in Range(snapshots) :
        flow(n, b, t, s) <= (IF b.s_nom_extendable THEN s.branch_s_nom[key(b)] ELSE b.s_nom)

flow_lower(n, snapshots, s) ==
    \A b \in Range(passive_branches(n)), t \in Range(snapshots) :
        flow(n, b, t, s) >= -(IF b.s_nom_extendable THEN s.branch_s_nom[key(b)] ELSE b.s_nom)

\* model.power_balance_constraint
power_balance_constraint(n, snapshots, s) ==
    \A bus \in 1..Len(n.buses), t \in Range(snapshots) :
        p_balance(n, bus, t, s)
        + inflow_sum(passive_branches(n), bus,
                     [l \in 1..Len(passive_branches(n)) |->
                        flow(n, passive_branches(n)[l], t, s)]) = 0

\* (a model without the balance of the sub-networks)
sn_balance_unconstrained(n, snapshots, s) == TRUE

\* model.sub_network_balance_constraint
sn_balance(n, snapshots, s) ==
    \A k \in 1..Len(n.sub_networks), t \in Range(snapshots) :
        sum([j \in 1..Len(n.sub_networks[k].buses_o) |->
                p_balance(n, n.sub_networks[k].buses_o[j], t, s)],
            Len(n.sub_networks[k].buses_o)) = 0

\* the co2_emissions of the source of a generator
co2_emissions(n, gen) ==
    (CHOOSE source \in Range(n.sources) : source.name = gen.source).co2_emissions

RECURSIVE product(_, _)
\* the product of f[k] for k in 1..m
product(f, m) == IF m = 0 THEN 1 ELSE f[m] * product(f, m - 1)

\* the emissions of the dispatch p of the generators over the snapshots, times
\* the product of the efficiencies of all generators (so that the sum stays
\* within the integers)
emissions(n, snapshots, p) ==
    sum([g \in 1..Len(n.generators) |->
            co2_emissions(n, n.generators[g])
            * sum([i \in 1..Len(snapshots) |->
                    p[g][snapshots[i]] * n.snapshot_weightings[snapshots[i]]], Len(snapshots))
            * product([h \in 1..Len(n.generators) |->
                        IF h = g THEN 1 ELSE n.generators[h].efficiency], Len(n.generators))],
        Len(n.generators))

\* the same multiple of the limit
emissions_limit(n) ==
    n.co2_limit[1]
    * product([h \in 1..Len(n.generators) |-> n.generators[h].efficiency], Len(n.generators))

\* (a model whose emissions are not limited)
co2_unlimited(n, snapshots, s) == TRUE

\* model.co2_constraint
co2_rule(n, snapshots, s) == emissions(n, snapshots, s.generator_p) <= emissions_limit(n)

\* the solution obeys every bound and constraint the model holds
feasible(n, snapshots, s) ==
    /\ "generator_p" \in components(n) => generator_p(n, snapshots, s)
    /\ "generator_p_lower" \in components(n) => generator_p_lower(n, snapshots, s)
    /\ "generator_p_upper" \in components(n) => generator_p_upper(n, snapshots, s)
    /\ "storage_p_dispatch" \in components(n) => storage_p(n, snapshots, s)
    /\ "storage_p_upper" \in components(n) => storage_p_upper(n, snapshots, s)
    /\ "storage_p_lower" \in components(n) => storage_p_lower(n, snapshots, s)
    /\ "state_of_charge_upper" \in components(n) => soc_upper(n, snapshots, s)
    /\ "state_of_charge_constraint" \in components(n) => soc_constraint(n, snapshots, s)
    /\ "state_of_charge_constraint_fixed" \in components(n)
            => soc_constraint_fixed(n, snapshots, s)
    /\ "branch_s_nom" \in components(n) => branch_s_nom(n, s)
    /\ "controllable_branch_p" \in components(n) => controllable_branch_p(n, snapshots, s)
    /\ "controllable_branch_p_upper" \in components(n)
            => controllable_branch_p_upper(n, snapshots, s)
    /\ "controllable_branch_p_lower" \in components(n)
            => controllable_branch_p_lower(n, snapshots, s)
    /\ "slack_angle" \in components(n) => slack(n, snapshots, s)
    /\ "flow_upper" \in components(n) => flow_upper(n, snapshots, s)
    /\ "flow_lower" \in components(n) => flow_lower(n, snapshots, s)
    /\ "power_balance_constraint" \in components(n)
            => power_balance_constraint(n, snapshots, s)
    /\ "sub_network_balance_constraint" \in components(n) => sn_balance(n, snapshots, s)
    /\ "co2_constraint" \in components(n) => co2_rule(n, snapshots, s)

\* the value of model.objective
objective(n, snapshots, s) ==
    sum([g \in 1..Len(n.generators) |->
            n.generators[g].marginal_cost
            * sum([i \in 1..Len(snapshots) |->
                    s.generator_p[g][snapshots[i]] * n.snapshot_weightings[snapshots[i]]],
                  Len(snapshots))], Len(n.generators))
    + sum([u \in 1..Len(n.storage_units) |->
            n.storage_units[u].marginal_cost
            * sum([i \in 1..Len(snapshots) |->
                    s.storage_p_dispatch[u][snapshots[i]]
                    * n.snapshot_weightings[snapshots[i]]], Len(snapshots))],
          Len(n.storage_units))
    + sum([g \in 1..Len(n.generators) |->
            IF n.generators[g].p_nom_extendable
            THEN n.generators[g].capital_cost * (s.generator_p_nom[g] - n.generators[g].p_nom)
            ELSE 0], Len(n.generators))
    + sum([u \in 1..Len(n.storage_units) |->
            IF n.storage_units[u].p_nom_extendable
            THEN n.storage_units[u].capital_cost
                    * (s.storage_p_nom[u] - n.storage_units[u].p_nom)
            ELSE 0], Len(n.storage_units))
    + sum([b \in 1..Len(branches(n)) |->
            IF branches(n)[b].s_nom_extendable
            THEN branches(n)[b].capital_cost
                    * (s.branch_s_nom[key(branches(n)[b])] - branches(n)[b].s_nom)
            ELSE 0], Len(branches(n)))

\* ---- the solver ---------------------------------------------------------------
Statuses == {"ok", "warning"}
TerminationConditions == {"optimal", "infeasible"}
\* The values a variable can take: a dispatch or a capacity is any of
\* SolverValues, a state of charge any of ChargeValues, the flow of a
\* controllable branch and the voltage angle of a bus any of FlowValues;
\* every dual has the one value of SolverLevels.
SolverValues == {0, 1}
ChargeValues == {0, 1, 2}
FlowValues == {-1, 0, 1}
SolverLevels == {1}

\* the assignments of values to the variables of the model of network n
Solutions(n, snapshots) ==
    LET T == Range(snapshots)
        angles == IF "voltage_angles" \in components(n) THEN 1..Len(n.buses) ELSE {}
    IN [generator_p : [1..Len(n.generators) -> [T -> SolverValues]],
        generator_p_nom : [{g \in 1..Len(n.generators) : n.generators[g].p_nom_extendable}
                            -> SolverValues],
        storage_p_dispatch : [1..Len(n.storage_units) -> [T -> SolverValues]],
        storage_p_store : [1..Len(n.storage_units) -> [T -> SolverValues]],
        state_of_charge : [1..Len(n.storage_units) -> [T -> ChargeValues]],
        storage_p_nom : [{u \in 1..Len(n.storage_units) : n.storage_units[u].p_nom_extendable}
                            -> SolverValues],
        controllable_branch_p : [{key(b) : b \in Range(controllable_branches(n))}
                                    -> [T -> FlowValues]],
        branch_s_nom : [{key(b) : b \in {c \in Range(branches(n)) : c.s_nom_extendable}}
                            -> SolverValues],
        voltage_angles : [angles -> [T -> FlowValues]],
        dual : [angles -> [T -> SolverLevels]]]

\* what opt.solve can return: a status, a termination condition, the lower
\* bound of the objective and the values of the variables.  With status ok
\* and termination condition optimal the values are a solution that obeys the
\* bounds and constraints of the model and the lower bound is its objective;
\* else the variables hold values of no meaning
Responses(n, snapshots) ==
    { [status |-> "ok", termination_condition |-> "optimal",
       lower_bound |-> objective(n, snapshots, solution), solution |-> solution] :
            solution \in { s \in Solutions(n, snapshots) : feasible(n, snapshots, s) } }
    \cup { [status |-> r[1], termination_condition |-> r[2], lower_bound |-> 0,
            solution |-> CHOOSE solution \in Solutions(n, snapshots) : TRUE] :
                r \in (Statuses \X TerminationConditions) \ {<<"ok", "optimal">>} }

\* ---- network_lopf (opf.py) -------------------------------------------------
RECURSIVE find_slack_buses(_, _)
\* find_slack_bus on every sub-network from row i on
find_slack_buses(n, i) ==
    IF i > Len(n.sub_networks) THEN n
    ELSE find_slack_buses(find_slack_bus(n, n.sub_networks[i].name), i + 1)

\* a power flow that trusted the sub-networks it finds
keep_stale_topology(n) == n

\* what network_pf, network_lpf and network_lopf do first: "if not
\* network.topology_determined: build_graph, determine_network_topology"
determine_topology_if_stale(n) ==
    IF ~n.topology_determined THEN determine_network_topology(build_graph(n)) ELSE n

calculate_dependent_values_if_stale(n) ==
    IF ~n.dependent_values_calculated THEN calculate_dependent_values(n) ELSE n

prepare(n) ==
    find_slack_buses(calculate_dependent_values_if_stale(determine_topology_if_stale(n)), 1)

\* the flows of the passive branches: network.lopf_formulation is read here
\* for the first time, and a value other than the two defines no flows
passive_branch_flows(n, snapshots) ==
    IF n.lopf_formulation = Missing THEN Raise(n, "AttributeError")
    ELSE IF n.lopf_formulation = Value("angles")
         THEN Ok(define_passive_branch_flows(n, snapshots))
    ELSE IF n.lopf_formulation = Value("ptdf")
         THEN define_passive_branch_flows_with_PTDF(n, snapshots)
    ELSE Ok(n)

balance_constraints(n, snapshots) ==
    LET n1 == IF n.lopf_formulation = Value("angles")
              THEN define_nodal_balance_constraints(n, snapshots) ELSE n
    IN IF n.lopf_formulation = Value("ptdf")
       THEN define_sub_network_balance_constraints(n1, snapshots) ELSE n1

\* from network.model = ConcreteModel(...) to the dual suffix
\* "if network.co2_limit is not None"
co2_constraint(n, snapshots) ==
    IF n.co2_limit # Missing THEN define_co2_constraint(n, snapshots) ELSE Ok(n)

build_model(n, snapshots) ==
    Then(define_generator_variables_constraints([n EXCEPT !.model = ConcreteModel], snapshots),
      LAMBDA n1 :
        Then(passive_branch_flows(
                define_nodal_balances(define_controllable_branch_flows(
                    define_branch_extension_variables(
                        define_storage_variables_constraints(n1, snapshots),
                        snapshots), snapshots), snapshots), snapshots),
          LAMBDA n2 :
            Then(define_passive_branch_constraints(n2, snapshots),
              LAMBDA n3 :
                Then(co2_constraint(balance_constraints(n3, snapshots), snapshots),
                  LAMBDA n4 :
                    Ok(declare(define_linear_objective(n4, snapshots), {"dual"}))))))

\* (a test that looks at the status only)
solved_with_status_ok(results) == results.status = "ok"

\* status == "ok" and termination_condition == "optimal"
solved_optimally(results) ==
    results.status = "ok" /\ results.termination_condition = "optimal"

\* how a call ended: the exception raised, whether the solver ran, the
\* status and termination condition printed, whether results were extracted
Outcome(n, raised, solved, reported, extracted) ==
    [network |-> n, raised |-> raised, solved |-> solved, reported |-> reported,
     extracted |-> extracted]

\* from opt.solve to the end, response being what opt.solve returns
\* the call ends in extract_optimisation_results
extracted(extraction) == Outcome(extraction.network, extraction.raised, TRUE, Missing, TRUE)

\* the end of the call, n being the network with network.results
extract_or_report(n, snapshots, solution) ==
    IF solved_optimally(n.results[1])
    THEN extracted(extract_optimisation_results(n, snapshots, solution))
    ELSE Outcome(n, "", TRUE,
                 Value(<<n.results[1].status, n.results[1].termination_condition>>), FALSE)

\* from opt.solve to the end, response being what opt.solve returns
solve(n, snapshots, response) ==
    extract_or_report(
        [n EXCEPT !.results = Value([status |-> response.status,
                                     termination_condition |-> response.termination_condition,
                                     lower_bound |-> response.lower_bound]),
                  !.model = Value([@[1] EXCEPT !.values = Value(response.solution)])],
        snapshots, response.solution)

\* the ways the call can end once the model is built or building it has
\* raised: in the first case one for each response the solver can give
solve_model(built, snapshots) ==
    IF Raised(built)
    THEN {Outcome(built.network, built.raised, FALSE, Missing, FALSE)}
    ELSE {solve(built.network, snapshots, response) :
            response \in Responses(built.network, snapshots)}

\* the ways the call can end
network_lopf(n, snapshots) == solve_model(build_model(prepare(n), snapshots), snapshots)

\* ---- network_lpf, sub_network_lpf (pf.py) -----------------------------------
\* sum(asset.sign*asset.p_set[now]) over the rows
p_set_sum(rows, now) ==
    sum([a \in 1..Len(rows) |-> rows[a].sign * rows[a].p_set[now]], Len(rows))

\* what the controllable branches cbs take out of bus: p0 where it is their
\* bus0 and p1 where it is their bus1
cb_outflow(cbs, bus, now) ==
    sum([c \in 1..Len(cbs) |-> (IF cbs[c].bus0 = bus THEN cbs[c].p0[now] ELSE 0)
                               + (IF cbs[c].bus1 = bus THEN cbs[c].p1[now] ELSE 0)], Len(cbs))

\* the power injection at each bus of buses_o: the set points of its
\* generators and loads less the flows of transport links and converters
set_injections(n, name, now) ==
    [n EXCEPT !.buses = [bus \in 1..Len(@) |->
        IF InSeq(bus, n.sub_networks[sn_row(n, name)].buses_o)
        THEN [@[bus] EXCEPT !.p[now] =
                p_set_sum(at_bus(n.generators, bus), now) + p_set_sum(at_bus(n.loads, bus), now)
                - cb_outflow(n.transport_links \o n.converters, bus, now)]
        ELSE @[bus]]]

\* (a power flow that reads no injection)
injections_unread(n, name, now) ==
    [i \in 1..Len(n.sub_networks[sn_row(n, name)].buses_o) |-> 0]

\* p = network.buses.p.loc[now,buses.index], in the order of buses_o
injections(n, name, now) ==
    [i \in 1..Len(n.sub_networks[sn_row(n, name)].buses_o) |->
        n.buses[n.sub_networks[sn_row(n, name)].buses_o[i]].p[now]]

\* v_diff: zero at the slack bus and, if the sub-network has branches, the
\* solution of B[1:,1:] v = p[1:] at the other buses
v_diff(n, name, p) ==
    IF Len(sn_branches(n, name)) > 0
    THEN <<0>> \o spsolve(n.sub_networks[sn_row(n, name)].B[1], Tail(p))
    ELSE [i \in 1..Len(p) |-> 0]

\* sub_network.H.dot(v_diff), one flow for each branch of the sub-network
H_dot(H, v) == [l \in 1..Len(H) |-> sum([j \in 1..Len(v) |-> H[l][j] * v[j]], Len(v))]

\* p0 and p1 at now of the rows that are branches bs of the sub-network
lpf_flow_rows(rows, bs, flows, now) ==
    [r \in 1..Len(rows) |->
        IF \E l \in 1..Len(bs) : key(bs[l]) = key(rows[r])
        THEN LET l == CHOOSE l \in 1..Len(bs) : key(bs[l]) = key(rows[r])
             IN [rows[r] EXCEPT !.p0[now] = flows[l], !.p1[now] = -flows[l]]
        ELSE rows[r]]

\* the flows of the lines and transformers of the sub-network
lpf_flows(n, name, now, v) ==
    IF Len(sn_branches(n, name)) > 0
    THEN [n EXCEPT
            !.lines = lpf_flow_rows(@, sn_branches(n, name),
                        H_dot(n.sub_networks[sn_row(n, name)].H[1], v), now),
            !.transformers = lpf_flow_rows(@, sn_branches(n, name),
                        H_dot(n.sub_networks[sn_row(n, name)].H[1], v), now)]
    ELSE n

\* the writes at the end of sub_network_lpf, p being the injections in the
\* order of buses_o and v being v_diff: the slack bus picks up the remainder,
\* the buses get v_diff as angle (AC) or as voltage deviation (DC), loads and
\* generators dispatch as set and the slack generator takes up the slack
lpf_results(n, name, now, p, v) ==
    LET sn == n.sub_networks[sn_row(n, name)]
        slack_p == -sum(Tail(p), Len(p) - 1)
    IN [n EXCEPT
        !.buses = [bus \in 1..Len(@) |->
            IF InSeq(bus, sn.buses_o)
            THEN [@[bus] EXCEPT
                    !.p[now] = IF bus = sn.slack_bus THEN slack_p ELSE @,
                    !.v_ang[now] = IF sn.current_type = "AC"
                                   THEN v[position(sn.buses_o, bus)] ELSE @,
                    !.v_mag[now] = IF sn.current_type = "DC"
                                   THEN n.buses[bus].v_nom
                                        + v[position(sn.buses_o, bus)] * n.buses[bus].v_nom
                                   ELSE @]
            ELSE @[bus]],
        !.loads = [l \in 1..Len(@) |->
            IF @[l].bus \in sn_buses(n, name)
            THEN [@[l] EXCEPT !.p[now] = n.loads[l].p_set[now]] ELSE @[l]],
        !.generators = [g \in 1..Len(@) |->
            IF @[g].bus \in sn_buses(n, name)
            THEN [@[g] EXCEPT !.p[now] = n.generators[g].p_set[now]
                    + (IF g = sn.slack_generator THEN slack_p - p[1] ELSE 0)]
            ELSE @[g]]]

\* sub_network_lpf from the flows on, p being the injections
lpf_solve(n, name, now, p, v) == lpf_results(lpf_flows(n, name, now, v), name, now, p, v)

\* sub_network_lpf from the solution of the angles on, n being the network
\* with the injections written
lpf_angles(n, name, now, p) == lpf_solve(n, name, now, p, v_diff(n, name, p))

\* the matrices B and H of a sub-network that has branches
lpf_matrices(n, name) ==
    IF Len(sn_branches(n, name)) > 0 THEN calculate_B_H(n, name) ELSE n

\* sub_network_lpf from the reading of the injections on
lpf_injected(n, name, now) == lpf_angles(n, name, now, injections(n, name, now))

\* sub_network.lpf(now): the method of SubNetwork that network_lpf calls
sub_network_lpf(n, name, now) ==
    lpf_injected(
        set_injections(
            lpf_matrices(find_bus_controls(calculate_dependent_values_if_stale(n), name),
                         name),
            name, now),
        name, now)

\* (set points written to every snapshot of the series)
set_point_rows_every_snapshot(rows, now) ==
    [c \in 1..Len(rows) |->
        [rows[c] EXCEPT !.p0 = [t \in DOMAIN @ |-> rows[c].p_set[now]],
                        !.p1 = [t \in DOMAIN @ |-> -rows[c].p_set[now]]]]

\* p0 and p1 of the rows of a table of controllable branches set to the set
\* point p_set and its negative
set_point_rows(rows, now) ==
    [c \in 1..Len(rows) |-> [rows[c] EXCEPT !.p0[now] = rows[c].p_set[now],
                                            !.p1[now] = -rows[c].p_set[now]]]

\* "deal with transport links and converters"
set_point_flows(n, now) ==
    [n EXCEPT !.converters = set_point_rows(@, now),
              !.transport_links = set_point_rows(@, now)]

RECURSIVE sub_networks_lpf(_, _, _)
\* the loop over network.sub_networks.obj from row i on
sub_networks_lpf(n, now, i) ==
    IF i > Len(n.sub_networks) THEN n
    ELSE sub_networks_lpf(sub_network_lpf(n, n.sub_networks[i].name, now), now, i + 1)

network_lpf(n, now) ==
    sub_networks_lpf(
        set_point_flows(
            calculate_dependent_values_if_stale(determine_topology_if_stale(n)), now),
        now, 1)

\* ---- network_pf, sub_network_pf (pf.py) -------------------------------------
\* The non-linear power flow works in complex floating-point numbers.  The
\* model keeps the active power and the voltage of the buses and the active
\* flows of the branches; what the Newton-Raphson iteration and the products
\* with the admittance matrices yield is a value of PfValues, and the
\* admittance matrices are kept as the fact that they were calculated.
PfValues == {0, 1}

\* calculate_Y where the sub-network has branches
pf_matrices(n, name) ==
    IF Len(sn_branches(n, name)) > 0
    THEN [n EXCEPT !.sub_networks[sn_row(n, name)].Y = Value("Y")] ELSE n

\* the power injection at each bus of buses_o
set_pf_injections(n, name, now) ==
    [n EXCEPT !.buses = [bus \in 1..Len(@) |->
        IF InSeq(bus, n.sub_networks[sn_row(n, name)].buses_o)
        THEN [@[bus] EXCEPT !.p[now] =
                p_set_sum(at_bus(n.generators, bus), now) + p_set_sum(at_bus(n.loads, bus), now)
                - cb_outflow(n.transport_links \o n.converters, bus, now)]
        ELSE @[bus]]]

\* "set what we know", and the guess that the first evaluation of the
\* mismatch writes: the set voltage at the PV buses and the slack bus, angle 0
\* at the slack bus and at the PV and PQ buses, voltage 1 at the PQ buses
set_known_and_guess(n, name, now) ==
    LET sn == n.sub_networks[sn_row(n, name)]
    IN [n EXCEPT !.buses = [bus \in 1..Len(@) |->
            IF bus = sn.slack_bus
            THEN [@[bus] EXCEPT !.v_mag[now] = n.buses[bus].v_mag_set[now], !.v_ang[now] = 0]
            ELSE IF InSeq(bus, sn.pvs)
            THEN [@[bus] EXCEPT !.v_mag[now] = n.buses[bus].v_mag_set[now], !.v_ang[now] = 0]
            ELSE IF InSeq(bus, sn.pqs)
            THEN [@[bus] EXCEPT !.v_mag[now] = 1, !.v_ang[now] = 0]
            ELSE @[bus]]]

\* what the iteration and the admittance products can yield for a sub-network:
\* one value of PfValues for all the unknowns of the sub-network
PfSolutions(n, name) ==
    LET sn == n.sub_networks[sn_row(n, name)]
        keys == {key(b) : b \in Range(sn_branches(n, name))}
    IN {[v_ang |-> [bus \in Range(sn.pvpqs) |-> v], v_mag |-> [bus \in Range(sn.pqs) |-> v],
         p0 |-> [k \in keys |-> v], p1 |-> [k \in keys |-> -v], slack_p |-> v] :
            v \in PfValues}

\* p0 and p1 at now of the rows that are branches of the sub-network
pf_flow_rows(rows, name, now, solution) ==
    [r \in 1..Len(rows) |->
        IF rows[r].sub_network = name
        THEN [rows[r] EXCEPT !.p0[now] = solution.p0[key(rows[r])],
                             !.p1[now] = solution.p1[key(rows[r])]]
        ELSE rows[r]]

\* "now set everything", up to the dispatch of the generators as set
pf_results(n, name, now, solution) ==
    LET sn == n.sub_networks[sn_row(n, name)]
    IN [n EXCEPT
        !.buses = [bus \in 1..Len(@) |-> [@[bus] EXCEPT
            !.v_ang[now] = IF InSeq(bus, sn.pvpqs) THEN solution.v_ang[bus] ELSE @,
            !.v_mag[now] = IF InSeq(bus, sn.pqs) THEN solution.v_mag[bus] ELSE @,
            !.p[now] = IF bus = sn.slack_bus THEN solution.slack_p ELSE @]],
        !.lines = pf_flow_rows(@, name, now, solution),
        !.transformers = pf_flow_rows(@, name, now, solution),
        !.loads = [l \in 1..Len(@) |->
            IF @[l].bus \in sn_buses(n, name)
            THEN [@[l] EXCEPT !.p[now] = n.loads[l].p_set[now]] ELSE @[l]],
        !.generators = [g \in 1..Len(@) |->
            IF @[g].bus \in sn_buses(n, name)
            THEN [@[g] EXCEPT !.p[now] = n.generators[g].p_set[now]] ELSE @[g]]]

\* "let slack generator take up the slack", s being the injection at the
\* slack bus before the iteration: without a slack generator the write to
\* the row "" of the generators fails
pf_slack(n, name, now, s) ==
    LET sn == n.sub_networks[sn_row(n, name)]
    IN IF sn.slack_generator = NoName THEN Raise(n, "KeyError")
       ELSE Ok([n EXCEPT !.generators[sn.slack_generator].p[now] =
                    @ + n.buses[sn.slack_bus].p[now] - s])

\* sub_network_pf from the iteration on, n being the network with the
\* injections, the known values and the guess written and s the injection
\* at the slack bus: a sub-network without branches has no matrix Y
pf_iterate(n, name, now, s) ==
    IF n.sub_networks[sn_row(n, name)].Y = Missing
    THEN {Raise(n, "AttributeError")}
    ELSE {pf_slack(pf_results(n, name, now, solution), name, now, s) :
            solution \in PfSolutions(n, name)}

\* sub_network_pf from the reading of the injections on
pf_injected(n, name, now) ==
    UNION {pf_iterate(guess, name, now,
                      n.buses[n.sub_networks[sn_row(n, name)].slack_bus].p[now]) :
               guess \in {set_known_and_guess(n, name, now)}}

\* sub_network.pf(now): the method of SubNetwork that network_pf calls; the
\* ways it can end
sub_network_pf(n, name, now) ==
    UNION {pf_injected(injected, name, now) :
        injected \in {set_pf_injections(pf_matrices(controlled, name), name, now) :
            controlled \in {find_bus_controls(calculated, name) :
                calculated \in {calculate_dependent_values_if_stale(n)}}}}

RECURSIVE sub_networks_pf(_, _, _)
\* the loop over network.sub_networks.obj from row i on, r being the state of
\* the call so far: the ways it can end
sub_networks_pf(r, now, i) ==
    IF Raised(r) \/ i > Len(r.network.sub_networks) THEN {r}
    ELSE IF r.network.sub_networks[i].current_type = "DC"
    THEN {Raise(r.network, "NotImplementedError")}
    ELSE UNION {sub_networks_pf(r1, now, i + 1) :
                    r1 \in sub_network_pf(r.network, r.network.sub_networks[i].name, now)}

\* the ways the call can end
network_pf(n, now) ==
    UNION {sub_networks_pf(Ok(set_point_flows(calculated, now)), now, 1) :
        calculated \in {calculate_dependent_values_if_stale(determined) :
            determined \in {determine_topology_if_stale(n)}}}

\* ---- the topology life cycle: add, remove, build_graph, determine --------
Call(op) ==
    [op |-> op, sn |-> "", snapshots |-> <<>>, raised |-> "", solved |-> FALSE,
     reported |-> Missing, extracted |-> FALSE]

Init ==
    /\ network = Network
    /\ last_call = Call("Network")
    /\ before = Network
    /\ names_used = 0

AddBus ==
    /\ Len(network.buses) < MaxBuses
    /\ \E current_type \in CurrentTypes : network' = add_bus_of_type(network, current_type)
    /\ last_call' = Call("add")
    /\ UNCHANGED names_used
    /\ before' = Network

\* the user gives every new branch a name never used before (names_used
\* counts them) and gives the end buses in index order; MaxBranches bounds
\* the number of branches ever added
AddBranch ==
    /\ names_used < MaxBranches
    /\ \E cls \in BranchClasses :
       \E bus0 \in 1..Len(network.buses), bus1 \in 1..Len(network.buses) :
          /\ bus0 < bus1
          /\ network' = add_branch(network, cls, names_used + 1, bus0, bus1)
    /\ names_used' = names_used + 1
    /\ last_call' = Call("add")
    /\ before' = Network

RemoveBranch ==
    /\ \E b \in Range(branches(network)) : network' = remove(network, b.cls, b.name)
    /\ last_call' = Call("remove")
    /\ UNCHANGED names_used
    /\ before' = Network

BuildGraph ==
    /\ network' = build_graph(network)
    /\ last_call' = Call("build_graph")
    /\ UNCHANGED names_used
    /\ before' = Network

DetermineNetworkTopology ==
    /\ network' = determine_network_topology(network)
    /\ last_call' = Call("determine_network_topology")
    /\ UNCHANGED names_used
    /\ before' = Network

Next ==
    \/ AddBus
    \/ AddBranch
    \/ RemoveBranch
    \/ BuildGraph
    \/ DetermineNetworkTopology

Spec == Init /\ [][Next]_vars

\* ---- topology claims ------------------------------------------------------
\* the last call was determine_network_topology, made on a graph that
\* build_graph had built from the branches the network has now
TopologyJustDetermined ==
    /\ last_call.op = "determine_network_topology"
    /\ network.graph = build_graph(network).graph

AllBuses == 1..Len(network.buses)

\* the buses that the determination assigned to a sub-network
assigned_buses(sn) == Range(sn.graph.nodes)

\* the connected component of bus b in the graph of the passive branches
passive_component(n, b) ==
    plain_bfs([nodes |-> <<>>, edges |-> [i \in 1..Len(passive_branches(n)) |->
                                            edge(passive_branches(n)[i])]], {b})

\* C1: after build_graph and determine_network_topology the bus sets of the
\* sub-networks are pairwise disjoint, their union is the set of all buses
\* of the network (buses without any branch included), and the two end buses
\* of every passive branch are in the same sub-network.
C1_TopologyPartition ==
    TopologyJustDetermined =>
        LET sns == network.sub_networks IN
        /\ \A i, j \in 1..Len(sns) :
              i # j => assigned_buses(sns[i]) \cap assigned_buses(sns[j]) = {}
        /\ UNION {assigned_buses(sns[i]) : i \in 1..Len(sns)} = AllBuses
        /\ \A b \in Range(passive_branches(network)) :
              \E i \in 1..Len(sns) : {b.bus0, b.bus1} \subseteq assigned_buses(sns[i])

\* C2: after a topology determination (also one that follows removals and
\* an earlier determination) the buses labelled with a sub-network's name are
\* exactly one connected component of the passive-branch graph, and every
\* label a bus carries is the name of a sub-network of this determination.
C2_LabelsAreComponents ==
    TopologyJustDetermined =>
        /\ \A i \in 1..Len(network.sub_networks) :
              \E b \in AllBuses :
                 sn_buses(network, network.sub_networks[i].name) = passive_component(network, b)
        /\ \A b \in AllBuses :
              network.buses[b].sub_network # "" =>
                 /\ \E i \in 1..Len(network.sub_networks) :
                       network.sub_networks[i].name = network.buses[b].sub_network
                 /\ sn_buses(network, network.buses[b].sub_network) = passive_component(network, b)

\* the current_type of bus b
bus_type(b) == network.buses[b].current_type

\* C11: after a topology determination every passive branch whose end buses
\* have the same current_type is in a sub-network of that current_type; a
\* passive branch whose end buses differ in current_type was rejected with an
\* error and is in no sub-network; and no sub-network holds buses of both
\* current types.
C11_OneCurrentTypePerSubNetwork ==
    TopologyJustDetermined =>
        /\ \A b \in Range(passive_branches(network)) :
              IF bus_type(b.bus0) = bus_type(b.bus1)
              THEN \E k \in 1..Len(network.sub_networks) :
                      /\ network.sub_networks[k].name = b.sub_network
                      /\ network.sub_networks[k].current_type = bus_type(b.bus0)
              ELSE b.sub_network = "" /\ last_call.raised # ""
        /\ \A k \in 1..Len(network.sub_networks) :
              \A x, y \in assigned_buses(network.sub_networks[k]) : bus_type(x) = bus_type(y)

\* ---- slack and bus-control selection on determined networks --------------
\* The networks this specification starts from: ControlsBuses buses, all
\* added with the same control label (any of the three), the branches of one
\* of the topologies below, and the topology determined.  Mixed bus labels
\* arise from the calls of find_bus_controls themselves.
ControlsBuses == 3
MaxGenerators == 2

Controls == {"PQ", "PV", "Slack"}

RECURSIVE add_buses(_, _, _)
add_buses(n, control, count) ==
    IF count = 0 THEN n
    ELSE add_buses(add_bus_with(n, control), control, count - 1)

RECURSIVE add_branches(_, _, _)
add_branches(n, bs, i) ==
    IF i > Len(bs) THEN n
    ELSE add_branches(add_branch(n, bs[i][1], i, bs[i][2], bs[i][3]), bs, i + 1)

\* one sub-network of three buses; two sub-networks joined by a converter;
\* a bus without any branch; a transformer and a transport link
ControlTopologies ==
    { << <<"Line", 1, 2>>, <<"Line", 2, 3>> >>,
      << <<"Line", 1, 2>>, <<"Converter", 2, 3>> >>,
      << <<"Line", 2, 3>> >>,
      << <<"Transformer", 1, 3>>, <<"TransportLink", 1, 2>> >> }

topology(n) == determine_network_topology(build_graph(n))

ControlNetworks ==
    LET bare == {add_buses(Network, c, ControlsBuses) : c \in Controls}
        built == {topology(add_branches(n, t, 1)) : n \in bare, t \in ControlTopologies}
        \* a line removed after a first determination, and the topology
        \* determined again
        rebuilt == {topology(remove(topology(add_branches(n, << <<"Line", 1, 2>>, <<"Line", 2, 3>> >>, 1)),
                                    "Line", 1)) : n \in bare}
    IN built \cup rebuilt

SubNetworkNames == {network.sub_networks[k].name : k \in 1..Len(network.sub_networks)}

CallOn(op, name) == [Call(op) EXCEPT !.sn = name]

InitControls ==
    /\ network \in ControlNetworks
    /\ last_call = Call("determine_network_topology")
    /\ before = Network
    /\ names_used = Len(branches(network))

AddGenerator ==
    /\ Len(network.generators) < MaxGenerators
    /\ \E bus \in 1..Len(network.buses), control \in Controls :
          network' = add_generator(network, bus, control)
    /\ last_call' = Call("add")
    /\ before' = Network
    /\ UNCHANGED names_used

FindSlackBus ==
    /\ \E name \in SubNetworkNames :
          /\ network' = find_slack_bus(network, name)
          /\ last_call' = CallOn("find_slack_bus", name)
    /\ before' = network
    /\ UNCHANGED names_used

FindBusControls ==
    /\ \E name \in SubNetworkNames :
          /\ network' = find_bus_controls(network, name)
          /\ last_call' = CallOn("find_bus_controls", name)
    /\ before' = network
    /\ UNCHANGED names_used

NextControls ==
    \/ AddGenerator
    \/ FindSlackBus
    \/ FindBusControls

SpecControls == InitControls /\ [][NextControls]_vars

\* ---- slack and bus-control claims -----------------------------------------
\* the sub-network the last call was made on, and its generators and buses
CalledRow == network.sub_networks[sn_row(network, last_call.sn)]

CalledGenerators == Range(sn_generators(network, last_call.sn))

CalledBuses == sn_buses(network, last_call.sn)

SlackLabelled(n, gs) == {g \in gs : n.generators[g].control = "Slack"}

\* C3: after find_slack_bus on a sub-network with a generator, exactly one
\* generator of the sub-network is labelled Slack, it is slack_generator and
\* slack_bus is its bus, and a further call changes nothing; without a
\* generator slack_generator is empty and slack_bus is one bus of the
\* sub-network.
C3_OneSlackGenerator ==
    last_call.op = "find_slack_bus" =>
        IF CalledGenerators # {}
        THEN /\ SlackLabelled(network, CalledGenerators) = {CalledRow.slack_generator}
             /\ CalledRow.slack_generator \in CalledGenerators
             /\ CalledRow.slack_bus = network.generators[CalledRow.slack_generator].bus
             /\ find_slack_bus(network, last_call.sn) = network
        ELSE /\ CalledRow.slack_generator = NoName
             /\ CalledRow.slack_bus \in CalledBuses
             /\ find_slack_bus(network, last_call.sn) = network

\* find_slack_bus was called on a sub-network in which two or more
\* generators were labelled Slack, and on one in which none was
C3_Witness ==
    /\ last_call.op = "find_slack_bus"
    /\ Cardinality(CalledGenerators) >= 2
    /\ SlackLabelled(before, CalledGenerators) = CalledGenerators

\* C4: find_slack_bus takes no slack generator and the first bus when the
\* sub-network has no generator; promotes the first generator when none is
\* labelled Slack; keeps the first Slack generator and relabels every other
\* one PV; and changes the label of no other generator.
C4_SlackSelection ==
    last_call.op = "find_slack_bus" =>
        LET gens == CalledGenerators
            slacks == SlackLabelled(before, gens)
            first(gs) == CHOOSE g \in gs : \A h \in gs : g <= h
        IN /\ gens = {} =>
                /\ CalledRow.slack_generator = NoName
                /\ CalledRow.slack_bus = first(CalledBuses)
                /\ network.generators = before.generators
           /\ (gens # {} /\ slacks = {}) =>
                /\ CalledRow.slack_generator = first(gens)
                /\ network.generators[first(gens)].control = "Slack"
                /\ \A g \in gens \ {first(gens)} :
                      network.generators[g] = before.generators[g]
           /\ slacks # {} =>
                /\ CalledRow.slack_generator = first(slacks)
                /\ network.generators[first(slacks)].control = "Slack"
                /\ \A g \in slacks \ {first(slacks)} : network.generators[g].control = "PV"
                /\ \A g \in gens \ slacks : network.generators[g] = before.generators[g]
           /\ \A g \in 1..Len(network.generators) :
                g \notin gens => network.generators[g] = before.generators[g]
           /\ \A g \in 1..Len(network.generators) :
                network.generators[g].bus = before.generators[g].bus

\* find_slack_bus demoted a second Slack generator of the sub-network to PV
C4_Witness ==
    /\ last_call.op = "find_slack_bus"
    /\ \E g \in CalledGenerators :
          /\ before.generators[g].control = "Slack"
          /\ network.generators[g].control = "PV"

\* C5: after find_bus_controls, whatever the bus labels were, the slack bus
\* and only it is labelled Slack; another bus of the sub-network is labelled
\* PV exactly when a PV generator is attached to it, and PQ otherwise; pvs
\* holds every PV bus once and not the slack bus; the slack bus, pvs and pqs
\* partition the buses of the sub-network.
C5_BusControls ==
    last_call.op = "find_bus_controls" =>
        LET row == CalledRow
            has_pv(b) == \E g \in 1..Len(network.generators) :
                            /\ network.generators[g].bus = b
                            /\ network.generators[g].control = "PV"
        IN /\ row.slack_bus \in CalledBuses
           /\ \A b \in CalledBuses :
                 /\ network.buses[b].control = "Slack" <=> b = row.slack_bus
                 /\ b # row.slack_bus =>
                       /\ network.buses[b].control = "PV" <=> has_pv(b)
                       /\ network.buses[b].control = "PQ" <=> ~has_pv(b)
           /\ \A i, j \in 1..Len(row.pvs) : row.pvs[i] = row.pvs[j] => i = j
           /\ \A i, j \in 1..Len(row.pqs) : row.pqs[i] = row.pqs[j] => i = j
           /\ Range(row.pvs) = {b \in CalledBuses : network.buses[b].control = "PV"}
           /\ row.slack_bus \notin Range(row.pvs) \cup Range(row.pqs)
           /\ Range(row.pvs) \cap Range(row.pqs) = {}
           /\ {row.slack_bus} \cup Range(row.pvs) \cup Range(row.pqs) = CalledBuses

\* find_bus_controls produced a slack, a PV and a PQ bus in a sub-network
\* whose buses were all labelled Slack before
C5_Witness ==
    /\ last_call.op = "find_bus_controls"
    /\ Len(CalledRow.pvs) >= 1
    /\ Len(CalledRow.pqs) >= 1
    /\ \A b \in CalledBuses : before.buses[b].control = "Slack"

\* ---- linear optimal power flow ---------------------------------------------
\* Two buses carry a load and are joined in one of a few ways; the user adds
\* generators and sets the formulation options, and then calls network_lopf
\* any number of times; the solver answers each call with a status, a
\* termination condition and a solution.
MaxLopfGenerators == 1

Dispatches == {"flexible", "variable", "inflexible"}
Formulations == {"angles", "ptdf", "kirchhoff"}
\* the tolerances the user sets: one that kills no entry of a PTDF and one
\* above the magnitude of the entries of the PTDF of a single line
PtdfTolerances == {0, 2}

add_load(n, bus, p_set) == [n EXCEPT !.loads = Append(@, Load(bus, p_set))]

add_storage_unit(n, bus) == [n EXCEPT !.storage_units = Append(@, StorageUnit(bus))]

add_lopf_generator(n, bus, dispatch, p_nom_extendable) ==
    [n EXCEPT !.generators = Append(@, [Generator(bus, "PQ") EXCEPT
                    !.dispatch = dispatch, !.p_nom_extendable = p_nom_extendable])]

\* the branch tables with every branch made extendable
with_extendable_branches(n) ==
    LET ext(rows) == [l \in 1..Len(rows) |-> [rows[l] EXCEPT !.s_nom_extendable = TRUE]]
    IN [n EXCEPT !.lines = ext(@), !.transformers = ext(@),
                 !.converters = ext(@), !.transport_links = ext(@)]

TwoBuses == add_load(add_buses(Network, "PQ", 2), 2, 1)

\* the lines with s_nom set to a value
with_s_nom(n, value) ==
    [n EXCEPT !.lines = [l \in 1..Len(@) |-> [@[l] EXCEPT !.s_nom = value]]]

LopfNetworks ==
    { add_branch(TwoBuses, "Line", 1, 1, 2),
      with_s_nom(add_branch(TwoBuses, "Line", 1, 1, 2), 0),
      with_extendable_branches(add_branch(TwoBuses, "Converter", 1, 1, 2)),
      add_branch(add_branch(TwoBuses, "Line", 1, 1, 2), "TransportLink", 2, 1, 2),
      add_storage_unit(add_branch(TwoBuses, "Line", 1, 1, 2), 1) }

InitLopf ==
    /\ network \in LopfNetworks
    /\ last_call = Call("add")
    /\ before = Network
    /\ names_used = Len(branches(network))

\* network.add("Generator", ...) with a dispatch and p_nom_extendable
AddLopfGenerator ==
    /\ network.model = Missing
    /\ Len(network.generators) < MaxLopfGenerators
    /\ \E bus \in 1..Len(network.buses), dispatch \in Dispatches, ext \in BOOLEAN :
            network' = add_lopf_generator(network, bus, dispatch, ext)
    /\ last_call' = Call("add")
    /\ UNCHANGED <<before, names_used>>

\* network.dc_opf_formulation = value
SetDcOpfFormulation ==
    /\ network.model = Missing
    /\ \E value \in Formulations : network' = [network EXCEPT !.dc_opf_formulation = value]
    /\ last_call' = Call("setattr")
    /\ UNCHANGED <<before, names_used>>

\* network.lopf_formulation = value
SetLopfFormulation ==
    /\ network.model = Missing
    /\ \E value \in Formulations : network' = [network EXCEPT !.lopf_formulation = Value(value)]
    /\ last_call' = Call("setattr")
    /\ UNCHANGED <<before, names_used>>

\* network.ptdf_tolerance = value
SetPtdfTolerance ==
    /\ network.model = Missing
    /\ \E value \in PtdfTolerances : network' = [network EXCEPT !.ptdf_tolerance = Value(value)]
    /\ last_call' = Call("setattr")
    /\ UNCHANGED <<before, names_used>>

\* network.lopf() on the snapshot network.now
NetworkLopf ==
    /\ \E outcome \in network_lopf(network, Snapshots) :
               /\ network' = outcome.network
               /\ last_call' = [Call("network_lopf") EXCEPT
                                    !.snapshots = Snapshots,
                                    !.raised = outcome.raised, !.solved = outcome.solved,
                                    !.reported = outcome.reported,
                                    !.extracted = outcome.extracted]
    /\ UNCHANGED <<before, names_used>>

NextLopf ==
    \/ AddLopfGenerator
    \/ SetDcOpfFormulation
    \/ SetLopfFormulation
    \/ SetPtdfTolerance
    \/ NetworkLopf

SpecLopf == InitLopf /\ [][NextLopf]_vars

\* ---- claims about network_lopf ---------------------------------------------
\* every per-snapshot result series of the network
ResultSeries(n) ==
    [generators |-> [g \in 1..Len(n.generators) |-> n.generators[g].p],
     storage_units |-> [u \in 1..Len(n.storage_units) |->
                            <<n.storage_units[u].p, n.storage_units[u].state_of_charge>>],
     loads |-> [l \in 1..Len(n.loads) |-> n.loads[l].p],
     buses |-> [b \in 1..Len(n.buses) |->
                    <<n.buses[b].p, n.buses[b].v_ang, n.buses[b].marginal_price>>],
     branches |-> [l \in 1..Len(branches(n)) |-> <<branches(n)[l].p0, branches(n)[l].p1>>]]

\* every p_nom and s_nom of the network
Capacities(n) ==
    [generators |-> [g \in 1..Len(n.generators) |-> n.generators[g].p_nom],
     storage_units |-> [u \in 1..Len(n.storage_units) |-> n.storage_units[u].p_nom],
     branches |-> [l \in 1..Len(branches(n)) |-> branches(n)[l].s_nom]]

\* the control labels, the sub-network table with its slack fields, and the
\* two flags
StaticAttributes(n) ==
    [generators |-> [g \in 1..Len(n.generators) |-> n.generators[g].control],
     buses |-> [b \in 1..Len(n.buses) |-> n.buses[b].control],
     sub_networks |-> [k \in 1..Len(n.sub_networks) |->
                        <<n.sub_networks[k].name, n.sub_networks[k].slack_bus,
                          n.sub_networks[k].slack_generator>>],
     topology_determined |-> n.topology_determined,
     dependent_values_calculated |-> n.dependent_values_calculated]

\* this step is a call of network_lopf in which the solver ran and returned
\* something other than status ok with termination condition optimal
FailedLopfStep ==
    /\ last_call'.op = "network_lopf"
    /\ last_call'.solved
    /\ <<network'.results[1].status, network'.results[1].termination_condition>>
            # <<"ok", "optimal">>

\* C6: when the solver returns anything other than ok/optimal, network_lopf
\* leaves every per-snapshot result series and every p_nom and s_nom as it
\* was before the call, and reports the status and the termination condition
C6_FailedSolveWritesNoResult ==
    [][FailedLopfStep =>
        /\ ResultSeries(network') = ResultSeries(network)
        /\ Capacities(network') = Capacities(network)
        /\ last_call'.reported = Value(<<network'.results[1].status,
                                         network'.results[1].termination_condition>>)]_vars

\* a call failed in the solver on a network that holds the results of an
\* earlier optimum: a dispatch of 1 and an optimised capacity of 1
C6_Witness ==
    /\ last_call.op = "network_lopf"
    /\ last_call.solved
    /\ network.results[1].termination_condition = "infeasible"
    /\ last_call.reported = Value(<<network.results[1].status, "infeasible">>)
    /\ network.objective # Missing
    /\ \E g \in 1..Len(network.generators) :
            /\ network.generators[g].p_nom_extendable
            /\ network.generators[g].p[Snapshots[1]] = 1
            /\ network.generators[g].p_nom = 1

\* C7: a call of network_lopf that fails in the solver leaves the whole
\* network as it was: the result series and capacities, the control label of
\* every generator and bus, the slack fields of the sub-networks, and the
\* flags topology_determined and dependent_values_calculated
C7_FailedLopfLeavesNetworkUntouched ==
    [][FailedLopfStep =>
        /\ ResultSeries(network') = ResultSeries(network)
        /\ Capacities(network') = Capacities(network)
        /\ StaticAttributes(network') = StaticAttributes(network)]_vars

ValidFormulations == {"angles", "ptdf"}

\* the formulation of the model built, read off its components
ModelFormulation(n) ==
    IF {"voltage_angles", "flow", "power_balance_constraint"} \subseteq components(n)
    THEN "angles"
    ELSE IF {"flow", "sub_network_balance_constraint"} \subseteq components(n)
    THEN "ptdf"
    ELSE "none"

AllDispatchSupported(n) ==
    \A g \in 1..Len(n.generators) : n.generators[g].dispatch \in SupportedDispatch

\* C8: after a call of network_lopf with dc_opf_formulation at its default or
\* set to angles or ptdf (and every generator's dispatch supported), the
\* model built has the formulation the option names, and so has the
\* extraction of the results if there was one
C8_FormulationFollowsOption ==
    (/\ last_call.op = "network_lopf"
     /\ network.dc_opf_formulation \in ValidFormulations
     /\ AllDispatchSupported(network))
    => /\ ModelFormulation(network) = network.dc_opf_formulation
       /\ last_call.extracted
            => network.lopf_formulation = Value(network.dc_opf_formulation)

\* C9: after a call of network_lopf with a formulation that is neither angles
\* nor ptdf, the call has raised an error, no component of the model was
\* constructed and the solver was not invoked
C9_UnknownFormulationAborts ==
    (/\ last_call.op = "network_lopf"
     /\ network.dc_opf_formulation \notin ValidFormulations
     /\ \/ network.lopf_formulation = Missing
        \/ network.lopf_formulation[1] \notin ValidFormulations)
    => /\ last_call.raised # ""
       /\ components(network) = {}
       /\ ~last_call.solved

LopfSucceeded ==
    /\ last_call.op = "network_lopf"
    /\ last_call.extracted
    /\ last_call.raised = ""
    /\ network.lopf_formulation # Missing
    /\ network.lopf_formulation[1] \in ValidFormulations

\* the signed sum of the generators, loads and storage units at bus less the
\* flows of the controllable branches that leave it, as the network holds them
bus_injection(n, bus, t) ==
    signed_p(at_bus(n.generators, bus), t) + signed_p(at_bus(n.loads, bus), t)
    + signed_p(at_bus(n.storage_units, bus), t)
    - cb_outflow(controllable_branches(n), bus, t)

\* the sum of bus.p over a set of buses
sum_of_p(n, buses, t) ==
    sum([bus \in 1..Len(n.buses) |-> IF bus \in buses THEN n.buses[bus].p[t] ELSE 0],
        Len(n.buses))

\* C13: after a successful network_lopf in either formulation the p of every
\* bus is the signed sum of its generators, loads and storage units less the
\* controllable flows that leave it, and over the buses of every sub-network
\* these sum to zero at the solved snapshot
C13_BusPowersBalance ==
    LopfSucceeded =>
        /\ \A bus \in 1..Len(network.buses) :
                network.buses[bus].p[Snapshots[1]] = bus_injection(network, bus, Snapshots[1])
        /\ \A k \in 1..Len(network.sub_networks) :
                sum_of_p(network, sn_buses(network, network.sub_networks[k].name),
                         Snapshots[1]) = 0

\* an optimum of the ptdf formulation in which the converter between two
\* sub-networks carries the load of the second one
C13_Witness ==
    /\ LopfSucceeded
    /\ network.lopf_formulation = Value("ptdf")
    /\ Len(network.sub_networks) = 2
    /\ Len(network.converters) = 1
    /\ network.converters[1].p0[Snapshots[1]] = 1
    /\ network.buses[1].p[Snapshots[1]] = 0
    /\ network.generators # <<>>

\* the magnitude of x
abs(x) == IF x < 0 THEN -x ELSE x

\* C14: after a successful network_lopf in either formulation the flow p0
\* written back to every line and transformer is within the s_nom the branch
\* has after the run
C14_FlowsWithinCapacity ==
    LopfSucceeded =>
        \A b \in Range(passive_branches(network)) : abs(b.p0[Snapshots[1]]) <= b.s_nom

\* ---- power flows on networks whose topology goes stale ----------------------
\* Three buses with generators, loads and branches; the user removes
\* branches, builds the graph, determines the topology and runs the linear
\* power flow, the non-linear power flow and the linear optimal power flow in
\* any order.
add_generator_with(n, bus, p_set) ==
    [n EXCEPT !.generators = Append(@, [Generator(bus, "PQ") EXCEPT !.p_set = Series(p_set)])]

\* Network.add for a passive branch with r and x given (both 1), and for a
\* controllable branch with the set point p_set
add_branch_with(n, cls, name, bus0, bus1, p_set) ==
    [n EXCEPT ![list_name(cls)] = Append(@, [Branch(cls, name, bus0, bus1) EXCEPT
                    !.r = IF cls \in PassiveClasses THEN 1 ELSE 0,
                    !.p_set = Series(p_set)])]

RECURSIVE add_buses_of_types(_, _)
add_buses_of_types(n, types) ==
    IF types = <<>> THEN n
    ELSE add_buses_of_types(add_bus_of_type(n, Head(types)), Tail(types))

FlowNetworks ==
    LET ac == add_buses_of_types(Network, <<"AC", "AC", "AC">>)
        dc == add_buses_of_types(Network, <<"DC", "DC", "AC">>)
    IN { add_load(add_generator_with(
            add_branch_with(add_branch_with(ac, "Line", 1, 1, 2, 0), "Converter", 2, 2, 3, 1),
            1, 1), 2, 1),
         add_load(add_branch_with(add_branch_with(ac, "Line", 1, 1, 2, 0), "Line", 2, 1, 2, 0),
                  2, 1),
         add_generator_with(
            add_branch_with(add_branch_with(dc, "Line", 1, 1, 2, 0), "TransportLink", 2, 2, 3, 1),
            1, 1),
         add_load(add_generator_with(
            add_branch_with(add_branch_with(ac, "Transformer", 1, 1, 2, 0), "Converter", 2, 1, 3, 0),
            2, 1), 1, 1) }

InitFlows ==
    /\ network \in FlowNetworks
    /\ last_call = Call("add")
    /\ before = Network
    /\ names_used = Len(branches(network))

\* network.lpf() for the snapshot network.now
NetworkLpf ==
    /\ network' = network_lpf(network, Snapshots[1])
    /\ last_call' = Call("network_lpf")
    /\ before' = network
    /\ UNCHANGED names_used

\* network.pf() for the snapshot network.now
NetworkPf ==
    /\ \E outcome \in network_pf(network, Snapshots[1]) :
            /\ network' = outcome.network
            /\ last_call' = [Call("network_pf") EXCEPT !.raised = outcome.raised]
    /\ before' = network
    /\ UNCHANGED names_used

NextFlows ==
    \/ RemoveBranch
    \/ BuildGraph
    \/ DetermineNetworkTopology
    \/ NetworkLpf
    \/ NetworkPf
    \/ NetworkLopf

SpecFlows == InitFlows /\ [][NextFlows]_vars

\* ---- claims about the power flows ----------------------------------------------
PowerFlows == {"network_pf", "network_lpf", "network_lopf"}

\* the name and the graph of every sub-network, in table order
SubNetworkObjects(n) ==
    [k \in 1..Len(n.sub_networks) |-> <<n.sub_networks[k].name, n.sub_networks[k].graph>>]

\* the graph of the branches network n has
fresh_graph(n) ==
    [nodes |-> {b.bus0 : b \in Range(branches(n))} \cup {b.bus1 : b \in Range(branches(n))},
     edges |-> {edge(b) : b \in Range(branches(n))}]

\* C12: a call of network_pf, network_lpf or network_lopf entered with
\* topology_determined false ends with topology_determined true, with the
\* graph of the branches the network has and with exactly one sub-network for
\* every connected component of the passive branches of that graph, and
\* these sub-networks are the ones the call went on to compute on (each has
\* its slack bus, unless network_pf or network_lpf raised on the way); a call
\* entered with topology_determined true keeps the sub-network objects it
\* found.
C12_StaleTopologyRebuiltFirst ==
    [][last_call'.op \in PowerFlows =>
        IF ~network.topology_determined
        THEN /\ network'.topology_determined
             /\ Range(network'.graph.nodes) = fresh_graph(network).nodes
             /\ Range(network'.graph.edges) = fresh_graph(network).edges
             /\ Len(network'.graph.edges) = Len(branches(network))
             /\ {assigned_buses(network'.sub_networks[k]) : k \in 1..Len(network'.sub_networks)}
                    = {passive_component(network, b) : b \in fresh_graph(network).nodes}
             /\ \A j, k \in 1..Len(network'.sub_networks) :
                    network'.sub_networks[j].name = network'.sub_networks[k].name => j = k
             /\ (last_call'.op = "network_lopf" \/ last_call'.raised = "")
                    => \A k \in 1..Len(network'.sub_networks) :
                            network'.sub_networks[k].slack_bus # NoName
        ELSE SubNetworkObjects(network') = SubNetworkObjects(network)]_vars

\* network_lpf was entered with a stale topology and two sub-networks of an
\* earlier determination, and has left one sub-network in their place
C12_Witness ==
    /\ last_call.op = "network_lpf"
    /\ ~before.topology_determined
    /\ Len(before.sub_networks) = 2
    /\ network.topology_determined
    /\ Len(network.sub_networks) = 1

\* ---- linear optimal power flow over several snapshots -------------------------
\* Bus 1 has a generator and a storage unit and feeds the load of 1 at bus 2
\* over a line; one network is a single bus with a generator and a load.  The
\* user sets
\* the snapshots of the network to two, fixes cells of the state of charge of
\* the storage unit, sets a limit on the emissions, and then calls
\* network_lopf on a list of snapshots of the network, in either order, and
\* once more on the same list if the call has extracted an optimum.
TwoSnapshots == <<"now", "then">>
SnapshotLists == {<<"now">>, <<"then">>, <<"now", "then">>, <<"then", "now">>}
\* the values the user fixes a state of charge to, and the limits on the
\* emissions the user sets
FixedCharges == {1}
Co2Limits == {0, 1}

add_source(n, name, co2) ==
    [n EXCEPT !.sources = Append(@, Source(name, co2))]

\* network.add("Generator", ...) with the attributes the user gives
add_generator_row(n, row) == [n EXCEPT !.generators = Append(@, row)]

\* network.add("StorageUnit", ...) with the attributes the user gives
add_storage_unit_row(n, row) == [n EXCEPT !.storage_units = Append(@, row)]

\* a generator at bus 1 with an existing capacity of 1, available in full at
\* the snapshot now, fuelled by gas
GasGenerator(dispatch, p_nom_extendable) ==
    [Generator(1, "PQ") EXCEPT
        !.dispatch = dispatch, !.p_nom_extendable = p_nom_extendable, !.p_nom = 1,
        !.p_max_pu = Series(1), !.capital_cost = 1, !.marginal_cost = 1, !.source = "gas"]

\* a storage unit at bus 1 with an existing capacity of 1 that can store as
\* much as it can dispatch
Battery(p_nom_extendable, state_of_charge_initial) ==
    [StorageUnit(1) EXCEPT
        !.p_nom_extendable = p_nom_extendable, !.p_nom = 1, !.p_min_pu_fixed = -1,
        !.state_of_charge_initial = state_of_charge_initial, !.capital_cost = 1]

\* a storage unit at bus 1 of which the user gives the capacity and the hours
\* it can hold, every other attribute as the class defines it; the
\* efficiencies of 0.9 are 1 in whole numbers
DefaultStorage == [StorageUnit(1) EXCEPT !.p_nom = 1, !.max_hours = 4]

\* network.lopf_formulation = value, and a ptdf_tolerance that kills no entry
with_lopf_formulation(n, value) ==
    [n EXCEPT !.lopf_formulation = Value(value), !.ptdf_tolerance = Value(0)]

OneLine == add_branch(TwoBuses, "Line", 1, 1, 2)

\* a bus with a load of 1 and no branch
OneBus == add_load(add_buses(Network, "PQ", 1), 1, 1)

StorageNetworks ==
    { with_lopf_formulation(
        add_storage_unit_row(
            add_generator_row(add_source(OneLine, "gas", 1), GasGenerator("flexible", FALSE)),
            Battery(FALSE, 1)), "angles"),
      with_lopf_formulation(
        add_storage_unit_row(
            add_generator_row(add_source(OneLine, "gas", 1), GasGenerator("variable", FALSE)),
            Battery(FALSE, 0)), "ptdf"),
      with_lopf_formulation(
        add_storage_unit_row(
            add_generator_row(add_source(OneLine, "gas", 1), GasGenerator("flexible", TRUE)),
            Battery(TRUE, 1)), "ptdf"),
      with_lopf_formulation(
        add_storage_unit_row(
            add_generator_row(add_source(OneLine, "gas", 3),
                [GasGenerator("variable", TRUE) EXCEPT
                    !.p_nom_max = Value(1), !.efficiency = 2]),
            [Battery(FALSE, 1) EXCEPT !.standing_loss = 1, !.inflow = Series(1)]), "ptdf"),
      with_lopf_formulation(
        add_storage_unit_row(
            add_generator_row(OneLine, GasGenerator("flexible", FALSE)),
            [Battery(FALSE, 0) EXCEPT !.efficiency_store = 2, !.max_hours = 2]), "ptdf"),
      with_lopf_formulation(
        add_storage_unit_row(
            add_generator_row(OneLine, GasGenerator("flexible", FALSE)),
            DefaultStorage), "ptdf"),
      with_lopf_formulation(add_generator_row(OneBus, GasGenerator("flexible", FALSE)), "ptdf") }

InitStorage ==
    /\ network \in StorageNetworks
    /\ last_call = Call("add")
    /\ before = Network
    /\ names_used = Len(branches(network))

\* network.set_snapshots(["now", "then"])
SetSnapshots ==
    /\ network.model = Missing
    /\ network.snapshots = Snapshots
    /\ network' = set_snapshots(network, TwoSnapshots)
    /\ last_call' = Call("set_snapshots")
    /\ UNCHANGED <<before, names_used>>

\* su.state_of_charge[snapshot] = value
SetStateOfCharge ==
    /\ network.model = Missing
    /\ \E u \in 1..Len(network.storage_units), snapshot \in Range(network.snapshots),
            value \in FixedCharges :
            /\ network.storage_units[u].state_of_charge[snapshot] = Missing
            /\ network' = [network EXCEPT
                    !.storage_units[u].state_of_charge[snapshot] = Value(value)]
    /\ last_call' = Call("setattr")
    /\ UNCHANGED <<before, names_used>>

\* network.co2_limit = value
SetCo2Limit ==
    /\ network.model = Missing
    /\ network.co2_limit = Missing
    /\ \E value \in Co2Limits : network' = [network EXCEPT !.co2_limit = Value(value)]
    /\ last_call' = Call("setattr")
    /\ UNCHANGED <<before, names_used>>

\* network.lopf(snapshots) on a list of snapshots of the network, once
NetworkLopfSnapshots ==
    /\ network.model = Missing
    /\ \E snapshots \in SnapshotLists :
            /\ Range(snapshots) \subseteq Range(network.snapshots)
            /\ \E outcome \in network_lopf(network, snapshots) :
                    /\ network' = outcome.network
                    /\ last_call' = [Call("network_lopf") EXCEPT
                                        !.snapshots = snapshots,
                                        !.raised = outcome.raised, !.solved = outcome.solved,
                                        !.reported = outcome.reported,
                                        !.extracted = outcome.extracted]
    /\ before' = network
    /\ UNCHANGED names_used

\* network.lopf(snapshots) once more on the snapshots of a first call that
\* has extracted an optimum, on a network without a limit on the emissions
NetworkLopfAgain ==
    /\ last_call.op = "network_lopf"
    /\ last_call.extracted /\ last_call.raised = ""
    /\ before.model = Missing
    /\ network.co2_limit = Missing
    /\ \E outcome \in network_lopf(network, last_call.snapshots) :
            /\ network' = outcome.network
            /\ last_call' = [Call("network_lopf") EXCEPT
                                !.snapshots = last_call.snapshots,
                                !.raised = outcome.raised, !.solved = outcome.solved,
                                !.reported = outcome.reported,
                                !.extracted = outcome.extracted]
    /\ before' = network
    /\ UNCHANGED names_used

NextStorage ==
    \/ SetSnapshots
    \/ SetStateOfCharge
    \/ SetCo2Limit
    \/ NetworkLopfSnapshots
    \/ NetworkLopfAgain

SpecStorage == InitStorage /\ [][NextStorage]_vars

\* ---- claims about the optimum over several snapshots --------------------------
\* the values of the variables of the model after the solver has loaded them
values(n) == n.model[1].values[1]

\* C15: in the optimum of a successful network_lopf the dispatch of every
\* generator at every solved snapshot is within its capacity times the fixed
\* per-unit limits if it is flexible and times the per-unit limits of the
\* snapshot if it is variable, the capacity being p_nom for a generator that
\* is not extendable and the variable generator_p_nom for one that is; and
\* generator_p_nom is not negative, at least p_nom_min and, where p_nom_max
\* is not nan, at most p_nom_max
C15_GeneratorDispatchWithinLimits ==
    LopfSucceeded =>
        \A g \in 1..Len(network.generators) :
            /\ \A t \in Range(last_call.snapshots) :
                    /\ before.generators[g].dispatch = "flexible" =>
                            /\ values(network).generator_p[g][t]
                                    >= network.generators[g].p_nom
                                        * before.generators[g].p_min_pu_fixed
                            /\ values(network).generator_p[g][t]
                                    <= network.generators[g].p_nom
                                        * before.generators[g].p_max_pu_fixed
                    /\ before.generators[g].dispatch = "variable" =>
                            /\ values(network).generator_p[g][t]
                                    >= network.generators[g].p_nom
                                        * before.generators[g].p_min_pu[t]
                            /\ values(network).generator_p[g][t]
                                    <= network.generators[g].p_nom
                                        * before.generators[g].p_max_pu[t]
            /\ before.generators[g].p_nom_extendable =>
                    /\ network.generators[g].p_nom = values(network).generator_p_nom[g]
                    /\ values(network).generator_p_nom[g] >= 0
                    /\ values(network).generator_p_nom[g] >= before.generators[g].p_nom_min
                    /\ before.generators[g].p_nom_max # Missing =>
                            values(network).generator_p_nom[g]
                                <= before.generators[g].p_nom_max[1]
            /\ ~before.generators[g].p_nom_extendable =>
                    network.generators[g].p_nom = before.generators[g].p_nom

\* an optimum over two snapshots in which an extendable variable generator
\* with a p_nom_max runs at its optimised capacity at the snapshot where it
\* is available and not at all at the one where it is not
C15_Witness ==
    /\ LopfSucceeded
    /\ last_call.snapshots = TwoSnapshots
    /\ \E g \in 1..Len(network.generators) :
            /\ network.generators[g].dispatch = "variable"
            /\ network.generators[g].p_nom_extendable
            /\ network.generators[g].p_nom_max = Value(1)
            /\ network.generators[g].p_max_pu = [now |-> 1, then |-> 0]
            /\ values(network).generator_p_nom[g] = 1
            /\ values(network).generator_p[g] = [now |-> 1, then |-> 0]

\* C16: in the optimum of a successful network_lopf, for every storage unit
\* and every snapshot of the list passed, the state of charge is
\* (1 - standing_loss)^w times the previous state of charge, plus
\* efficiency_store times what was stored times w, less what was dispatched
\* times w over efficiency_dispatch, plus the inflow times w, the previous
\* state of charge being state_of_charge_initial at the first snapshot of the
\* list and the state of charge of the snapshot before it in the list at
\* every other (both sides are multiplied by efficiency_dispatch)
C16_StateOfChargeChain ==
    LopfSucceeded =>
        \A u \in 1..Len(network.storage_units), i \in 1..Len(last_call.snapshots) :
            before.storage_units[u].efficiency_dispatch
                * values(network).state_of_charge[u][last_call.snapshots[i]]
            = before.storage_units[u].efficiency_dispatch
                * (power(1 - before.storage_units[u].standing_loss,
                         network.snapshot_weightings[last_call.snapshots[i]])
                        * (IF i = 1 THEN before.storage_units[u].state_of_charge_initial
                           ELSE values(network).state_of_charge[u][last_call.snapshots[i - 1]])
                   + before.storage_units[u].efficiency_store
                        * values(network).storage_p_store[u][last_call.snapshots[i]]
                        * network.snapshot_weightings[last_call.snapshots[i]]
                   + before.storage_units[u].inflow[last_call.snapshots[i]]
                        * network.snapshot_weightings[last_call.snapshots[i]])
              - values(network).storage_p_dispatch[u][last_call.snapshots[i]]
                    * network.snapshot_weightings[last_call.snapshots[i]]

\* an optimum over the list [then, now]: the storage unit starts empty, is
\* charged to 2 at then and dispatches 1 of that at now
C16_Witness ==
    /\ LopfSucceeded
    /\ last_call.snapshots = <<"then", "now">>
    /\ \E u \in 1..Len(network.storage_units) :
            /\ before.storage_units[u].state_of_charge_initial = 0
            /\ before.storage_units[u].efficiency_store = 2
            /\ values(network).storage_p_store[u] = [now |-> 0, then |-> 1]
            /\ values(network).storage_p_dispatch[u] = [now |-> 1, then |-> 0]
            /\ values(network).state_of_charge[u] = [now |-> 1, then |-> 2]

\* C17: where the user has given the state of charge of a storage unit at a
\* snapshot of the list a number, the variable of that state of charge has
\* this number in the optimum of a successful network_lopf, and the equation
\* of the snapshot after it in the list starts from this number
C17_FixedStateOfChargePinned ==
    LopfSucceeded =>
        \A u \in 1..Len(network.storage_units), i \in 1..Len(last_call.snapshots) :
            before.storage_units[u].state_of_charge[last_call.snapshots[i]] # Missing =>
                /\ values(network).state_of_charge[u][last_call.snapshots[i]]
                        = before.storage_units[u].state_of_charge[last_call.snapshots[i]][1]
                /\ i < Len(last_call.snapshots) =>
                        before.storage_units[u].efficiency_dispatch
                            * values(network).state_of_charge[u][last_call.snapshots[i + 1]]
                        = before.storage_units[u].efficiency_dispatch
                            * (power(1 - before.storage_units[u].standing_loss,
                                     network.snapshot_weightings[last_call.snapshots[i + 1]])
                                    * before.storage_units[u].state_of_charge[
                                            last_call.snapshots[i]][1]
                               + before.storage_units[u].efficiency_store
                                    * values(network).storage_p_store[u][
                                            last_call.snapshots[i + 1]]
                                    * network.snapshot_weightings[last_call.snapshots[i + 1]]
                               + before.storage_units[u].inflow[last_call.snapshots[i + 1]]
                                    * network.snapshot_weightings[last_call.snapshots[i + 1]])
                          - values(network).storage_p_dispatch[u][last_call.snapshots[i + 1]]
                                * network.snapshot_weightings[last_call.snapshots[i + 1]]

\* an optimum over the list [now, then] with the state of charge fixed to 1
\* at now and left nan at then: the variable is 1 at now and, being free at
\* then, has gone on from there to 2
C17_Witness ==
    /\ LopfSucceeded
    /\ last_call.snapshots = TwoSnapshots
    /\ \E u \in 1..Len(network.storage_units) :
            /\ before.storage_units[u].state_of_charge_initial = 0
            /\ before.storage_units[u].state_of_charge = [now |-> Value(1), then |-> Missing]
            /\ values(network).state_of_charge[u] = [now |-> 1, then |-> 2]

\* C18: in the optimum of a successful network_lopf and in the series
\* state_of_charge written back, the state of charge of every storage unit at
\* every solved snapshot is at least 0 and at most max_hours times the p_nom
\* the unit has after the run, which for an extendable unit is the optimised
\* storage_p_nom
C18_StateOfChargeWithinCapacity ==
    LopfSucceeded =>
        \A u \in 1..Len(network.storage_units) :
            /\ before.storage_units[u].p_nom_extendable =>
                    network.storage_units[u].p_nom = values(network).storage_p_nom[u]
            /\ ~before.storage_units[u].p_nom_extendable =>
                    network.storage_units[u].p_nom = before.storage_units[u].p_nom
            /\ \A t \in Range(last_call.snapshots) :
                    /\ values(network).state_of_charge[u][t] >= 0
                    /\ values(network).state_of_charge[u][t]
                            <= network.storage_units[u].max_hours * network.storage_units[u].p_nom
                    /\ network.storage_units[u].state_of_charge[t]
                            = Value(values(network).state_of_charge[u][t])

\* an optimum in which an extendable storage unit is full at both snapshots:
\* its state of charge is max_hours times the optimised capacity of 1
C18_Witness ==
    /\ LopfSucceeded
    /\ last_call.snapshots = TwoSnapshots
    /\ \E u \in 1..Len(network.storage_units) :
            /\ network.storage_units[u].p_nom_extendable
            /\ values(network).storage_p_nom[u] = 1
            /\ network.storage_units[u].max_hours = 1
            /\ network.storage_units[u].state_of_charge = [now |-> Value(1), then |-> Value(1)]

\* the dispatch of the generators as the network holds it
dispatch(n) == [g \in 1..Len(n.generators) |-> n.generators[g].p]

\* C19: after a successful network_lopf on a network with a co2_limit the
\* emissions of the dispatch written back to the generators, summed over the
\* generators and the solved snapshots, are at most co2_limit; after a call
\* on a network whose co2_limit is None the model has no co2_constraint
C19_EmissionsWithinLimit ==
    /\ (LopfSucceeded /\ network.co2_limit # Missing) =>
            emissions(network, last_call.snapshots, dispatch(network))
                <= emissions_limit(network)
    /\ (last_call.op = "network_lopf" /\ network.co2_limit = Missing) =>
            "co2_constraint" \notin components(network)

\* an optimum over two snapshots under a limit of 1: the storage unit covers
\* the load at now and the generator fills it again at then, which takes the
\* emissions to the limit
C19_Witness ==
    /\ LopfSucceeded
    /\ last_call.snapshots = TwoSnapshots
    /\ network.co2_limit = Value(1)
    /\ "co2_constraint" \in components(network)
    /\ \E g \in 1..Len(network.generators) :
            /\ co2_emissions(network, network.generators[g]) = 1
            /\ network.generators[g].efficiency = 1
            /\ network.generators[g].p = [now |-> 0, then |-> 1]
    /\ \E u \in 1..Len(network.storage_units) :
            network.storage_units[u].p = [now |-> 1, then |-> -1]

\* C20: in the optimum of a successful network_lopf the investment term of
\* every extendable generator, storage unit and branch whose capital_cost is
\* not negative, capital_cost times the optimised capacity less the capacity
\* the asset had before the run, is not negative
C20_InvestmentNotNegative ==
    LopfSucceeded =>
        /\ \A g \in 1..Len(network.generators) :
                (before.generators[g].p_nom_extendable
                 /\ before.generators[g].capital_cost >= 0) =>
                    before.generators[g].capital_cost
                        * (values(network).generator_p_nom[g] - before.generators[g].p_nom) >= 0
        /\ \A u \in 1..Len(network.storage_units) :
                (before.storage_units[u].p_nom_extendable
                 /\ before.storage_units[u].capital_cost >= 0) =>
                    before.storage_units[u].capital_cost
                        * (values(network).storage_p_nom[u] - before.storage_units[u].p_nom) >= 0
        /\ \A b \in 1..Len(branches(network)) :
                (branches(before)[b].s_nom_extendable
                 /\ branches(before)[b].capital_cost >= 0) =>
                    branches(before)[b].capital_cost
                        * (values(network).branch_s_nom[key(branches(before)[b])]
                           - branches(before)[b].s_nom) >= 0

\* ---- a storage unit with the limits of the class -------------------------------
\* the network with the model network_lopf builds for it on the snapshots
built(n, snapshots) == build_model(prepare(n), snapshots).network

\* storage unit u is not extendable, has a capacity, the per-unit limits, the
\* standing loss and the inflow of the class and no state of charge fixed
LimitsOfTheClass(n, u) ==
    /\ ~n.storage_units[u].p_nom_extendable
    /\ n.storage_units[u].p_nom > 0
    /\ n.storage_units[u].max_hours > 1
    /\ n.storage_units[u].p_max_pu_fixed = StorageUnit(1).p_max_pu_fixed
    /\ n.storage_units[u].p_min_pu_fixed = StorageUnit(1).p_min_pu_fixed
    /\ n.storage_units[u].standing_loss = StorageUnit(1).standing_loss
    /\ \A t \in Range(n.snapshots) : n.storage_units[u].state_of_charge[t] = Missing

\* solution s of the model charges unit u at the first snapshot and
\* discharges it at the second, the state of charge rising and returning
ChargesThenDischarges(n, snapshots, u, s) ==
    /\ feasible(n, snapshots, s)
    /\ s.storage_p_store[u][snapshots[1]] > 0
    /\ s.storage_p_dispatch[u][snapshots[2]] > 0
    /\ s.state_of_charge[u][snapshots[1]] > n.storage_units[u].state_of_charge_initial
    /\ s.state_of_charge[u][snapshots[2]] = n.storage_units[u].state_of_charge_initial

\* the load draws at the second snapshot of the list only, so that a unit
\* filled at the first can cover it
LoadAtSecondOnly(n, snapshots) ==
    /\ Len(snapshots) = 2
    /\ \A l \in 1..Len(n.loads) :
            n.loads[l].p_set[snapshots[1]] = 0 /\ n.loads[l].p_set[snapshots[2]] > 0

\* C21: the model network_lopf builds over two snapshots, the load drawing at
\* the second, for a network with a storage unit that is not extendable and
\* has a capacity and the per-unit limits of the class has a feasible
\* solution in which the unit stores at the first snapshot and dispatches at
\* the second, the state of charge rising and returning to its initial value
C21_DefaultStorageChargesAndDischarges ==
    (last_call.op = "network_lopf" /\ last_call.raised = ""
        /\ LoadAtSecondOnly(before, last_call.snapshots)) =>
        \A u \in 1..Len(before.storage_units) :
            LimitsOfTheClass(before, u) =>
                \E s \in Solutions(built(before, last_call.snapshots), last_call.snapshots) :
                    ChargesThenDischarges(built(before, last_call.snapshots),
                                          last_call.snapshots, u, s)

\* ---- the two formulations of the flows -------------------------------------------
\* network.lopf_formulation = value
formulated(n, value) == [n EXCEPT !.lopf_formulation = Value(value)]

\* no generator, storage unit or branch of n is extendable
NothingExtendable(n) ==
    /\ \A g \in 1..Len(n.generators) : ~n.generators[g].p_nom_extendable
    /\ \A u \in 1..Len(n.storage_units) : ~n.storage_units[u].p_nom_extendable
    /\ \A b \in 1..Len(branches(n)) : ~branches(n)[b].s_nom_extendable

\* the dispatches of the generators, storage units and controllable branches
\* the model of n admits, each with the objective it gives
feasible_dispatches(n, snapshots) ==
    { [generator_p |-> s.generator_p, storage_p_dispatch |-> s.storage_p_dispatch,
       storage_p_store |-> s.storage_p_store,
       controllable_branch_p |-> s.controllable_branch_p,
       objective |-> objective(n, snapshots, s)] :
            s \in { r \in Solutions(n, snapshots) : feasible(n, snapshots, r) } }

\* C22: for a network without extendable capacities and with ptdf_tolerance
\* 0, the model network_lopf builds with the angles formulation and the one
\* it builds with the PTDF formulation admit the same dispatches of the
\* generators, storage units and controllable branches, each with the same
\* objective, and so have the same optima
C22_FormulationsAdmitSameDispatches ==
    (last_call.op = "network_lopf" /\ last_call.raised = ""
        /\ NothingExtendable(before) /\ before.ptdf_tolerance = Value(0)) =>
        feasible_dispatches(built(formulated(before, "angles"), last_call.snapshots),
                            last_call.snapshots)
            = feasible_dispatches(built(formulated(before, "ptdf"), last_call.snapshots),
                                  last_call.snapshots)

\* ---- claims about the linear power flow --------------------------------------------
\* the injection sub_network_lpf sets at a bus: the set points of its
\* generators and loads less what the controllable branches take out
set_injection(n, bus, now) ==
    p_set_sum(at_bus(n.generators, bus), now) + p_set_sum(at_bus(n.loads, bus), now)
    - cb_outflow(n.transport_links \o n.converters, bus, now)

\* the sum of bus.p at now over the buses of the sub-network
sn_bus_p(n, name, now) ==
    sum([b \in 1..Len(n.buses) |->
            IF b \in sn_buses(n, name) THEN n.buses[b].p[now] ELSE 0], Len(n.buses))

\* C23: after network_lpf the bus p of every sub-network sum to zero, p0 + p1
\* is zero for every line and transformer, every bus but the slack bus holds
\* its injection, and the slack generator of a sub-network has its p_set plus
\* the amount by which the p of the slack bus differs from its injection
C23_LinearFlowBalances ==
    last_call.op = "network_lpf" =>
        /\ \A k \in 1..Len(network.sub_networks) :
                /\ sn_bus_p(network, network.sub_networks[k].name, Snapshots[1]) = 0
                /\ \A b \in sn_buses(network, network.sub_networks[k].name) :
                        b # network.sub_networks[k].slack_bus
                            => network.buses[b].p[Snapshots[1]]
                                    = set_injection(network, b, Snapshots[1])
                /\ network.sub_networks[k].slack_generator # NoName =>
                        network.generators[network.sub_networks[k].slack_generator].p[Snapshots[1]]
                            = network.generators[network.sub_networks[k].slack_generator]
                                    .p_set[Snapshots[1]]
                              + network.buses[network.sub_networks[k].slack_bus].p[Snapshots[1]]
                              - set_injection(network, network.sub_networks[k].slack_bus,
                                              Snapshots[1])
        /\ \A b \in 1..Len(passive_branches(network)) :
                passive_branches(network)[b].p0[Snapshots[1]]
                    + passive_branches(network)[b].p1[Snapshots[1]] = 0

\* network_lpf has made the slack generator of a sub-network take up a
\* remainder that is not zero, and a line carries a flow
C23_Witness ==
    /\ last_call.op = "network_lpf"
    /\ \E k \in 1..Len(network.sub_networks) :
            /\ network.sub_networks[k].slack_generator # NoName
            /\ Cardinality(sn_buses(network, network.sub_networks[k].name)) > 1
            /\ network.generators[network.sub_networks[k].slack_generator].p[Snapshots[1]]
                    # network.generators[network.sub_networks[k].slack_generator]
                            .p_set[Snapshots[1]]
    /\ \E b \in 1..Len(passive_branches(network)) :
            passive_branches(network)[b].p0[Snapshots[1]] # 0

\* ---- power flows for one snapshot of several ----------------------------------
\* The networks of the power flows above and one with an AC sub-network
\* before a DC one; the user sets the snapshots of the network to two and
\* runs the linear and the non-linear power flow for either snapshot, in any
\* order.
SnapshotNetworks ==
    FlowNetworks
    \cup { add_load(add_generator_with(
                add_branch_with(
                    add_branch_with(add_buses_of_types(Network, <<"AC", "AC", "DC", "DC">>),
                                    "Line", 1, 1, 2, 0),
                    "Line", 2, 3, 4, 0),
                1, 1), 2, 1) }

InitSnapshots ==
    /\ network \in SnapshotNetworks
    /\ last_call = Call("add")
    /\ before = Network
    /\ names_used = Len(branches(network))

\* network.lpf(now) for a snapshot of the network
NetworkLpfAt ==
    /\ \E now \in Range(network.snapshots) :
            /\ network' = network_lpf(network, now)
            /\ last_call' = [Call("network_lpf") EXCEPT !.snapshots = <<now>>]
    /\ before' = network
    /\ UNCHANGED names_used

\* network.pf(now) for a snapshot of the network
NetworkPfAt ==
    /\ \E now \in Range(network.snapshots) :
            \E outcome \in network_pf(network, now) :
                /\ network' = outcome.network
                /\ last_call' = [Call("network_pf") EXCEPT
                                    !.snapshots = <<now>>, !.raised = outcome.raised]
    /\ before' = network
    /\ UNCHANGED names_used

NextSnapshots ==
    \/ SetSnapshots
    \/ NetworkLpfAt
    \/ NetworkPfAt

SpecSnapshots == InitSnapshots /\ [][NextSnapshots]_vars

\* the values at snapshot t of the series of a table
rows_at(rows, columns, t) ==
    [r \in 1..Len(rows) |-> [c \in columns |-> rows[r][c][t]]]

\* the value at snapshot t of every series the power flows write
series_at(n, t) ==
    [buses |-> rows_at(n.buses, {"p", "v_mag", "v_ang"}, t),
     branches |-> rows_at(branches(n), {"p0", "p1"}, t),
     generators |-> rows_at(n.generators, {"p"}, t),
     loads |-> rows_at(n.loads, {"p"}, t)]

NominalVoltages == {1, 2}
Reactances == {4, 8}
NominalPowers == {1, 2}

DependentNetwork ==
    [add_branch(add_branch(add_buses(Network, "PQ", 2), "Line", 1, 1, 2), "Transformer", 2, 1, 2)
        EXCEPT !.lines[1].x = 4, !.lines[1].r = 4, !.lines[1].b = 1, !.lines[1].g = 1,
               !.transformers[1].x = 4, !.transformers[1].r = 4,
               !.transformers[1].b = 1, !.transformers[1].g = 1,
               !.shunt_impedances = <<[ShuntImpedance(2) EXCEPT !.g = 1, !.b = 1]>>]

InitDependent ==
    /\ network = DependentNetwork
    /\ last_call = Call("add")
    /\ before = Network
    /\ names_used = Len(branches(network))

\* network.buses.loc[bus, "v_nom"] = value
SetNominalVoltage ==
    /\ \E bus \in 1..Len(network.buses), value \in NominalVoltages :
            network' = [network EXCEPT !.buses[bus].v_nom = value]
    /\ last_call' = Call("setattr")
    /\ UNCHANGED <<before, names_used>>

\* line.x = value
SetReactance ==
    /\ \E l \in 1..Len(network.lines), value \in Reactances :
            network' = [network EXCEPT !.lines[l].x = value]
    /\ last_call' = Call("setattr")
    /\ UNCHANGED <<before, names_used>>

\* transformer.s_nom = value
SetNominalPower ==
    /\ \E t \in 1..Len(network.transformers), value \in NominalPowers :
            network' = [network EXCEPT !.transformers[t].s_nom = value]
    /\ last_call' = Call("setattr")
    /\ UNCHANGED <<before, names_used>>

\* calculate_dependent_values(network)
CalculateDependentValues ==
    /\ network' = calculate_dependent_values(network)
    /\ last_call' = Call("calculate_dependent_values")
    /\ before' = network
    /\ UNCHANGED names_used

NextDependent ==
    \/ SetNominalVoltage
    \/ SetReactance
    \/ SetNominalPower
    \/ CalculateDependentValues

SpecDependent == InitDependent /\ [][NextDependent]_vars

\* C26: after calculate_dependent_values the flag dependent_values_calculated
\* is true, and calling it once more would leave every line, transformer and
\* shunt impedance with the same per-unit values and the same columns: the
\* network the second call yields is the network the first has yielded
C26_DependentValuesIdempotent ==
    last_call.op = "calculate_dependent_values" =>
        /\ network.dependent_values_calculated
        /\ calculate_dependent_values(network) = network

\* calculate_dependent_values has run on a network that had per-unit values
\* and the column v_nom from an earlier call, and has changed the per-unit
\* reactance of a line to a value other than its reactance
C26_Witness ==
    /\ last_call.op = "calculate_dependent_values"
    /\ before.dependent_values_calculated
    /\ \E l \in 1..Len(network.lines) :
            /\ before.lines[l].v_nom # Missing
            /\ network.lines[l].x_pu # before.lines[l].x_pu
            /\ network.lines[l].x_pu # network.lines[l].x
            /\ network.lines[l].x_pu # 0

\* ---- the flag topology_determined ---------------------------------------------------
\* what a determination records: the name and the buses of every sub-network
\* and the sub_network label of every bus and passive branch
recorded_topology(n) ==
    [sub_networks |-> {<<n.sub_networks[k].name, assigned_buses(n.sub_networks[k])>> :
                            k \in 1..Len(n.sub_networks)},
     buses |-> [b \in 1..Len(n.buses) |-> n.buses[b].sub_network],
     passive_branches |-> [b \in 1..Len(passive_branches(n)) |->
                                passive_branches(n)[b].sub_network]]

\* the flag is false, or what is recorded is what build_graph followed by
\* determine_network_topology would produce for the network as it is
fresh_or_stale(n) ==
    n.topology_determined =>
        recorded_topology(n) = recorded_topology(determine_network_topology(build_graph(n)))

\* C27: topology_determined = true implies that the sub-networks recorded and
\* the sub_network labels of the buses and passive branches are the ones
\* build_graph followed by determine_network_topology would produce for the
\* buses and branches the network has now; a step of Network.add or
\* Network.remove taken where this holds leaves it holding, by marking the
\* topology stale where it changes what a determination would produce
C27_DeterminedTopologyIsFresh ==
    [][(last_call'.op \in {"add", "remove"} /\ fresh_or_stale(network))
            => fresh_or_stale(network')]_vars

\* ---- the state of charge a run leaves behind -----------------------------------
\* C28: a successful network_lopf leaves in state_of_charge, for every storage
\* unit and every snapshot solved, the number the optimum has, and a
\* successful network_lopf on the same snapshots of a network that holds the
\* results of an earlier run has the state of charge of every storage unit
\* at every snapshot at the number that run left
C28_SecondRunPinsStateOfCharge ==
    [][(last_call'.op = "network_lopf" /\ LopfSucceeded') =>
        \A u \in 1..Len(network.storage_units) : \A t \in Range(last_call'.snapshots) :
            /\ network'.storage_units[u].state_of_charge[t]
                    = Value(values(network').state_of_charge[u][t])
            /\ (LopfSucceeded /\ last_call.snapshots = last_call'.snapshots)
                    => values(network').state_of_charge[u][t]
                            = network.storage_units[u].state_of_charge[t][1]]_vars

\* a second run has succeeded with a state of charge of 2, a number the
\* user never fixes, pinned where the first run left it
C28_Witness ==
    /\ LopfSucceeded
    /\ before.model # Missing
    /\ \E u \in 1..Len(network.storage_units) : \E t \in Range(last_call.snapshots) :
            /\ before.storage_units[u].state_of_charge[t] = Value(2)
            /\ values(network).state_of_charge[u][t] = 2
            /\ "state_of_charge_constraint_fixed" \in components(network)

\* ---- the order of the buses of a sub-network ----------------------------------
\* the place of a control in the order of buses_o
control_rank(control) == IF control = "Slack" THEN 0 ELSE IF control = "PV" THEN 1 ELSE 2

\* C30: after find_bus_controls on a sub-network, buses_o lists every bus of
\* the sub-network exactly once, the slack bus first, then the PV buses, then
\* the PQ buses; pvs holds the PV buses, pqs the PQ buses and pvpqs is pvs
\* followed by pqs; and in the matrices calculate_B_H builds from buses_o the
\* first column belongs to the slack bus: a branch has an entry there exactly
\* if one of its ends is the slack bus
C30_BusesOrderedByControl ==
    last_call.op = "find_bus_controls" =>
        /\ Range(CalledRow.buses_o) = CalledBuses
        /\ Len(CalledRow.buses_o) = Cardinality(CalledBuses)
        /\ CalledRow.buses_o[1] = CalledRow.slack_bus
        /\ \A i, j \in 1..Len(CalledRow.buses_o) :
                i < j => control_rank(network.buses[CalledRow.buses_o[i]].control)
                            <= control_rank(network.buses[CalledRow.buses_o[j]].control)
        /\ \A i \in 2..Len(CalledRow.buses_o) :
                network.buses[CalledRow.buses_o[i]].control # "Slack"
        /\ Range(CalledRow.pvs) = {b \in CalledBuses : network.buses[b].control = "PV"}
        /\ Range(CalledRow.pqs) = {b \in CalledBuses : network.buses[b].control = "PQ"}
        /\ CalledRow.pvpqs = CalledRow.pvs \o CalledRow.pqs
        /\ CalledRow.buses_o = <<CalledRow.slack_bus>> \o CalledRow.pvpqs
        /\ Len(sn_branches(network, last_call.sn)) > 0 =>
                \A l \in 1..Len(sn_branches(network, last_call.sn)) :
                    (calculate_B_H(calculate_dependent_values(network), last_call.sn)
                        .sub_networks[sn_row(network, last_call.sn)].H[1][l][1] # 0)
                    <=> ((sn_branches(network, last_call.sn)[l].bus0 = CalledRow.slack_bus)
                            # (sn_branches(network, last_call.sn)[l].bus1 = CalledRow.slack_bus))

\* find_bus_controls has put a slack bus that is not the first bus of the
\* table before a PV bus and a PQ bus, the PV bus coming after the PQ bus
\* in the table
C30_Witness ==
    /\ last_call.op = "find_bus_controls"
    /\ Len(CalledRow.pvs) >= 1
    /\ Len(CalledRow.pqs) >= 1
    /\ CalledRow.slack_bus > CalledRow.pqs[1]
    /\ CalledRow.pvs[1] > CalledRow.pqs[1]
    /\ Len(sn_branches(network, last_call.sn)) > 0

\* ---- newton_raphson_sparse (pf.py) ---------------------------------------------
\* The iteration of sub_network_pf, step by step.  An iterate stands for the
\* whole vector of unknowns (0 is the flat start), the mismatch function f
\* gives the infinity-norm of the mismatch at an iterate, a number or nan
\* (Missing), and dfdx gives the iterate that guess - spsolve(dfdx(guess), F)
\* leads to.  Both are arbitrary; the call carries them with its locals.
\* lim_iter is the iteration cap (100 in the source) and nr_x_tol the
\* tolerance network.nr_x_tol (1e-6 in the source).
MaxIterate == 1
lim_iter == 3
nr_x_tol == 1
Iterates == 0..MaxIterate
Norms == {Value(v) : v \in 0..2} \cup {Missing}

\* the sub-network the iteration runs on
NewtonNetwork ==
    determine_network_topology(build_graph(
        add_load(add_generator_with(
            add_branch_with(add_buses_of_types(Network, <<"AC", "AC">>), "Line", 1, 1, 2, 0),
            1, 1), 2, 1)))

\* "diff > x_tol", which is false of a nan
exceeds(diff, x_tol) == diff # Missing /\ diff[1] > x_tol

\* the writes of f(guess) and of "now set everything": the angle of the PV
\* and PQ buses and the voltage of the PQ buses taken from the iterate
write_iterate(n, name, now, guess) ==
    LET sn == n.sub_networks[sn_row(n, name)]
    IN [n EXCEPT !.buses = [bus \in 1..Len(@) |-> [@[bus] EXCEPT
            !.v_ang[now] = IF InSeq(bus, sn.pvpqs) THEN guess ELSE @,
            !.v_mag[now] = IF InSeq(bus, sn.pqs) THEN guess ELSE @]]]

\* sub_network_pf up to the call of newton_raphson_sparse
pf_prepared(n, name, now) ==
    set_known_and_guess(
        set_pf_injections(
            pf_matrices(find_bus_controls(calculate_dependent_values_if_stale(n), name), name),
            name, now),
        name, now)

\* the locals of a call sub_network.pf(now, verbose) that has not started
Frame(f, dfdx, verbose) ==
    [op |-> "sub_network_pf", sn |-> "0", snapshots |-> Snapshots, raised |-> "",
     f |-> f, dfdx |-> dfdx, verbose |-> verbose,
     pc |-> "called", guess |-> 0, n_iter |-> 0, diff |-> Missing, diffs |-> <<>>,
     s |-> 0, printed |-> <<>>, returned |-> Missing, result |-> Missing]

\* the lines a call prints when verbose
printed_if(verbose, lines) == IF verbose THEN lines ELSE <<>>

InitNewton ==
    /\ network = NewtonNetwork
    /\ \E f \in [Iterates -> Norms], dfdx \in [Iterates -> Iterates], verbose \in BOOLEAN :
            last_call = Frame(f, dfdx, verbose)
    /\ before = Network
    /\ names_used = Len(branches(network))

\* sub_network_pf from its start to the first evaluation of the mismatch in
\* newton_raphson_sparse: n_iter = 0, F = f(guess), diff = norm(F, np.Inf)
NewtonStart ==
    /\ last_call.op = "sub_network_pf" /\ last_call.pc = "called"
    /\ network' = write_iterate(pf_prepared(network, last_call.sn, Snapshots[1]),
                                last_call.sn, Snapshots[1], 0)
    /\ last_call' = [last_call EXCEPT
            !.pc = "iterating",
            !.s = pf_prepared(network, last_call.sn, Snapshots[1])
                    .buses[pf_prepared(network, last_call.sn, Snapshots[1])
                                .sub_networks[1].slack_bus].p[Snapshots[1]],
            !.diff = last_call.f[0],
            !.diffs = <<last_call.f[0]>>,
            !.printed = printed_if(last_call.verbose,
                            <<[line |-> "Error at iteration", n_iter |-> 0,
                               diff |-> last_call.f[0]]>>)]
    /\ before' = network
    /\ UNCHANGED names_used

\* one pass of "while diff > x_tol and n_iter < lim_iter"
NewtonStep ==
    /\ last_call.op = "sub_network_pf" /\ last_call.pc = "iterating"
    /\ exceeds(last_call.diff, nr_x_tol) /\ last_call.n_iter < lim_iter
    /\ network' = write_iterate(network, last_call.sn, Snapshots[1],
                                last_call.dfdx[last_call.guess])
    /\ last_call' = [last_call EXCEPT
            !.n_iter = @ + 1,
            !.guess = last_call.dfdx[last_call.guess],
            !.diff = last_call.f[last_call.dfdx[last_call.guess]],
            !.diffs = Append(@, last_call.f[last_call.dfdx[last_call.guess]]),
            !.printed = @ \o printed_if(last_call.verbose,
                            <<[line |-> "Error at iteration", n_iter |-> last_call.n_iter + 1,
                               diff |-> last_call.f[last_call.dfdx[last_call.guess]]]>>)]
    /\ UNCHANGED <<before, names_used>>

\* the end of the loop: the warning, and "return guess,n_iter,diff"
NewtonReturn ==
    /\ last_call.op = "sub_network_pf" /\ last_call.pc = "iterating"
    /\ ~(exceeds(last_call.diff, nr_x_tol) /\ last_call.n_iter < lim_iter)
    /\ last_call' = [last_call EXCEPT
            !.pc = "returned",
            !.returned = Value(<<last_call.guess, last_call.n_iter, last_call.diff>>),
            !.printed = @ \o printed_if(last_call.verbose
                                            /\ exceeds(last_call.diff, nr_x_tol),
                            <<[line |-> "Warning", n_iter |-> last_call.n_iter,
                               diff |-> Missing]>>)]
    /\ UNCHANGED <<network, before, names_used>>

\* sub_network_pf from the return of newton_raphson_sparse to its end: the
\* line it prints, "now set everything" with the roots, and no return value
NewtonFinish ==
    /\ last_call.op = "sub_network_pf" /\ last_call.pc = "returned"
    /\ \E solution \in PfSolutions(network, last_call.sn) :
        \E r \in {pf_slack(pf_results(
                        write_iterate(network, last_call.sn, Snapshots[1],
                                      last_call.returned[1][1]),
                        last_call.sn, Snapshots[1],
                        [solution EXCEPT
                            !.v_ang = [bus \in DOMAIN @ |-> last_call.returned[1][1]],
                            !.v_mag = [bus \in DOMAIN @ |-> last_call.returned[1][1]]]),
                    last_call.sn, Snapshots[1], last_call.s)} :
            /\ network' = r.network
            /\ last_call' = [last_call EXCEPT
                    !.pc = "done",
                    !.raised = r.raised,
                    !.result = Missing,
                    !.printed = @ \o printed_if(last_call.verbose,
                            <<[line |-> "Newton-Raphson solved",
                               n_iter |-> last_call.returned[1][2],
                               diff |-> last_call.returned[1][3]]>>)]
    /\ UNCHANGED <<before, names_used>>

NextNewton ==
    \/ NewtonStart
    \/ NewtonStep
    \/ NewtonReturn
    \/ NewtonFinish

SpecNewton == InitNewton /\ [][NextNewton]_vars

\* ---- claims about the iteration --------------------------------------------------
\* the call has printed a line of this kind
has_printed(line) == \E i \in 1..Len(last_call.printed) : last_call.printed[i].line = line

\* the caller of sub_network_pf learns of the residual: by an exception, by a
\* return value, or by the warning and a line with the residual on the output
Signalled ==
    \/ last_call.raised # ""
    \/ last_call.result # Missing
    \/ /\ has_printed("Warning")
       /\ \E i \in 1..Len(last_call.printed) : last_call.printed[i].diff = last_call.diff

\* C25: when sub_network_pf ends after the iteration has reached the cap with
\* a residual above nr_x_tol, the caller has been told of the non-convergence
\* and of the final residual, whatever verbose is, and the angle of the PV
\* and PQ buses and the voltage of the PQ buses are those of the last iterate
C25_NonConvergenceSignalled ==
    (last_call.op = "sub_network_pf" /\ last_call.pc = "done"
        /\ last_call.n_iter = lim_iter /\ exceeds(last_call.diff, nr_x_tol)) =>
        /\ Signalled
        /\ \A bus \in Range(network.sub_networks[1].pvpqs) :
                network.buses[bus].v_ang[Snapshots[1]] = last_call.guess
        /\ \A bus \in Range(network.sub_networks[1].pqs) :
                network.buses[bus].v_mag[Snapshots[1]] = last_call.guess

\* the norm is a number within the tolerance
converged(diff, x_tol) == diff # Missing /\ diff[1] <= x_tol

\* C29: newton_raphson_sparse never takes more than lim_iter steps, and when
\* it has returned it has returned the last iterate, the number of steps and
\* the last norm; no iterate before the last had a norm within x_tol (so no
\* step was taken from a guess within x_tol), and the last iterate has a norm
\* within x_tol unless the number of steps is lim_iter
C29_NewtonStopsWithinLimit ==
    last_call.op = "sub_network_pf" =>
        /\ last_call.n_iter <= lim_iter
        /\ last_call.pc \in {"returned", "done"} =>
                /\ last_call.returned
                        = Value(<<last_call.guess, last_call.n_iter, last_call.diff>>)
                /\ Len(last_call.diffs) = last_call.n_iter + 1
                /\ last_call.diff = last_call.f[last_call.guess]
                /\ \A i \in 1..last_call.n_iter : ~converged(last_call.diffs[i], nr_x_tol)
                /\ converged(last_call.diff, nr_x_tol) \/ last_call.n_iter = lim_iter
====
